---- MODULE Spec2Model ----
(***************************************************************************)
(* Resumable teaser production pipeline of podcast_teaser_generator:       *)
(* TeaserGenerationWorkflow (workflow.py), ContentExtractionAgent,         *)
(* VideoGenerationAgent and CompositorAgent, over the artifact directory   *)
(* of one project (one title+text, one stable id).                         *)
(*                                                                         *)
(* Calls are interpreted on a stack of frames: each coroutine of the       *)
(* source is a frame [fn, pc, force, teaser]; an action is one step of the *)
(* frame on top, from one await/side effect to the next.  A raise pops     *)
(* frames until one whose pc lies inside a try block.                      *)
(***************************************************************************)
EXTENDS Integers, Sequences, FiniteSets, TLC

\* ------------------------------------------------------- program constants
\* workflow.py:247, 259, 370, 394: video and final are cached when st_size > 1024.
MinVideoBytes == 1024
\* workflow.py:391: step_compose regenerates the video when st_size < 1024.
ComposeMinVideoBytes == 1024
StatusMinAudioBytes == 1
StatusMinVideoBytes == 1024

\* Sizes a file written by a generator can have.  JSON text and the text stub
\* of the compositor are short; an encoded clip is larger than MinVideoBytes.
JsonBytes == 256
StubBytes == 128
ClipBytes == 2048
AudioBytes == 512

Languages == {"en-US", "he-IL"}

\* ------------------------------------------------------------------ bounds
\* Time is counted in ticks; random.uniform(0, 0.5) is 0 or half a second.
TicksPerSecond == 2

\* A network request takes 0..MaxLatency ticks.
MaxLatency == 1

\* settings.sora_download_retry_* (config.py), as this installation sets them:
\* attempts, total seconds, initial delay in seconds, backoff factor.
sora_download_retry_max_attempts == 3
sora_download_retry_max_seconds == 25
sora_download_retry_initial_delay == 8
sora_download_retry_backoff == 2

\* How many requests are given a project directory.
MaxRequests == 3

\* ------------------------------------------------- constants of video_agent.py
\* line 175: max_wait = 300; line 179: asyncio.sleep(5); line 265: min(..., 30);
\* line 227: int(clen or 0) > 1000.
\* compositor_agent.py:80, 104, 114: the tolerance 0.05 s, in hundredths of a
\* second; line 94: max_cycles = 20.
tolerance == 5
max_cycles == 20

max_wait == 300
poll_interval == 5
sleep_cap == 30
min_content_length == 1000

\* ------------------------------------------------------------------- state
VARIABLES
    fs,              \* path -> file: the project directory and settings.output_dir
    metadata,        \* contents of metadata.json
    moviepy,         \* the moviepy package can be imported in this installation
    stack,           \* frames of the running call, innermost last
    ret,             \* what the frame that just ended handed to its caller
    call,            \* the top-level call in progress or last ended
    project,         \* TeaserProject of the run: status, error_message, assets
    attempts,        \* event -> how often it happened in this top-level call
    prev,            \* summary of the top-level call before this one
    project_dirs,    \* the requests that were given a project directory, with its id
    settings,        \* the process-wide settings object (config.settings)
    tasks,           \* caller -> the coroutine it runs and its position
    background_tasks,\* ui.py: project id -> state of the asyncio.Task stored for it
    documents        \* input_spec.json and teaser_content.json as step_generate_from_input writes them

vars == <<fs, metadata, moviepy, stack, ret, call, project, attempts, prev, project_dirs,
          settings, tasks, background_tasks, documents>>

\* The state of the coroutines that share one event loop or one output directory.
concurrent == <<settings, tasks, background_tasks, documents>>

\* --------------------------------------------------------------- the files
CONTENT == "teaser_content.json"
AUDIO == "audio"
VIDEO == "video"
FINAL == "final"
GEN_AUDIO == "out/teaser_audio_<uuid>"
GEN_VIDEO == "out/teaser_video_<uuid>"
GEN_VIDEO_PART == "out/teaser_video_<uuid>.part"
GEN_FINAL == "out/teaser_final_<stable id>"
GEN_FINAL_UUID == "out/teaser_final_<uuid>"

\* Files under output_dir whose name holds a fresh uuid4: no later call names them.
UuidPaths == {GEN_AUDIO, GEN_VIDEO, GEN_VIDEO_PART, GEN_FINAL_UUID}

Paths == {CONTENT, AUDIO, VIDEO, FINAL, GEN_FINAL} \cup UuidPaths

\* A file: its size in bytes, who wrote it ("remote": an MCP service, the
\* OpenAI/Azure API or a Sora download; "placeholder": the last provider of a
\* chain; "success_placeholder"; "moviepy", "stub": the compositor), and whether
\* it was written during the top-level call in progress.  size = -1: no such file.
NoFile == [size |-> -1, by |-> "none", fresh |-> FALSE]

\* A file that open(path, "w") has just created or emptied.
Opened == [size |-> 0, by |-> "open", fresh |-> TRUE]

File(size, by) == [size |-> size, by |-> by, fresh |-> TRUE]

\* The files when the next caller comes: none is new any more, and what is
\* left under a uuid name is out of reach.
Settled(files) ==
    [p \in DOMAIN files |->
        IF p \in UuidPaths THEN NoFile ELSE [files[p] EXCEPT !.fresh = FALSE]]

Exists(f) == f.size >= 0

\* os.replace(src, dst): FileNotFoundError when src is missing.
Replace(files, from, to) == [files EXCEPT ![to] = files[from], ![from] = NoFile]

\* ------------------------------------------------------ presence predicates
ContentCached_Never(files) == FALSE

\* Path.exists(): the check on teaser_content.json.
ContentCached(files) == Exists(files[CONTENT])

\* audio_target.exists() and audio_target.stat().st_size > 0
AudioCached(files) == Exists(files[AUDIO]) /\ files[AUDIO].size > 0

VideoCached_AnySize(files) == Exists(files[VIDEO])

\* video_target.exists() and video_target.stat().st_size > 1024
VideoCached(files) == Exists(files[VIDEO]) /\ files[VIDEO].size > MinVideoBytes

\* final_target.exists() and final_target.stat().st_size > 1024
FinalCached(files) == Exists(files[FINAL]) /\ files[FINAL].size > MinVideoBytes

\* -------------------------------------------------------------- the frames
\* teaser: the TeaserContent the frame holds; audio_path, video_path: its
\* locals or arguments of these names; final_path: where compose_teaser writes;
\* tried: the providers the frame has attempted, in order; n, t, last: the
\* download loop's attempts, the ticks since the loop began (the poll loop's
\* too), and how the last download attempt ended; resp: video_resp, the
\* response of the download request that is being read.  In the compositor:
\* ta, tv: audio.duration and video.duration in hundredths of a second; tried:
\* seq, the clips of the loop; t: total, then the duration of final_video;
\* n: cycles.
NoResp == [status_ok |-> FALSE, ctype_video |-> FALSE, clen |-> 0, stream_ok |-> FALSE,
           delivered |-> 0]

Frame(fn, pc, force, teaser) ==
    [fn |-> fn, pc |-> pc, force |-> force, teaser |-> teaser,
     audio_path |-> "", video_path |-> "", final_path |-> "", tried |-> <<>>,
     n |-> 0, t |-> 0, last |-> "none", resp |-> NoResp, ta |-> 0, tv |-> 0,
     audio_task |-> "none", video_task |-> "none", status |-> "none", error |-> ""]

Try(provider) == [stack EXCEPT ![Len(stack)].tried = Append(@, provider)]

Top == stack[Len(stack)]

Running(fn, pc) == stack # <<>> /\ Top.fn = fn /\ Top.pc = pc

Goto(pc) == [stack EXCEPT ![Len(stack)].pc = pc]

Pop == SubSeq(stack, 1, Len(stack) - 1)

\* The caller moves to pc and the callee starts.
CallFrom(pc, frame) == Append(Goto(pc), frame)

NoRet == [kind |-> "none", path |-> "", content |-> NoFile, msg |-> ""]

RetPath(p) == [kind |-> "ok", path |-> p, content |-> NoFile, msg |-> ""]

RetContent(c) == [kind |-> "ok", path |-> "", content |-> c, msg |-> ""]

Raise(msg) == [kind |-> "exc", path |-> "", content |-> NoFile, msg |-> msg]

\* What is counted per top-level call: the generator of each stage being
\* invoked, a remote provider (MCP service, OpenAI/Azure, Sora) returning a
\* result, the poll loop of a Sora job ending with its timeout.
Events == {"content", "audio", "video", "compose", "remote_ok", "poll_timeout"}

NoAttempts == [e \in Events |-> 0]

Count(e) == [attempts EXCEPT ![e] = @ + 1]

Stages == {"content", "audio", "video", "compose"}

NoForce == [s \in Stages |-> FALSE]

NoProject == [status |-> "none", error |-> "", audio_path |-> "", video_path |-> "",
              final_path |-> ""]

NoCall == [op |-> "none", force |-> NoForce, language |-> "en-US", state |-> "none",
           result |-> NoRet]

\* What a caller still knows of the call before, when that was a call of the
\* same entry point: a run that returned with status completed or a step that
\* returned; for step_extract, how often it invoked the content chain.
NoPrev == [op |-> "none", content |-> 0]

\* metadata.json: absent, or the language and force flags a run wrote.  No code
\* reads the file; what an earlier call wrote is kept as "earlier" only.
NoMetadata == [of |-> "none", language |-> "", forced |-> NoForce]

EarlierMetadata == [of |-> "earlier", language |-> "", forced |-> NoForce]

\* --------------------------------------------- concurrent callers: their state
\* Coroutines that run at the same time: requests of the web layer on one
\* event loop, or runs started side by side on one output directory.
Callers == {1, 2}

\* Project ids of the requests (_stable_id_and_dir of title and text).
ProjectIds == {"p", "q"}

\* settings.max_clip_duration as the configuration gives it, and the target
\* durations requests ask for, in seconds.
ConfiguredDurations == {30}

TargetDurations == {10, 15}

ConfiguredSettings == [max_clip_duration |-> CHOOSE d \in ConfiguredDurations : TRUE]

\* The voice parameters api_generate derives from voice_name (ui.py 128-139).
Voices ==
    {[voice_name |-> "en-US-JennyNeural", voice_gender |-> "female", language |-> "en-US"],
     [voice_name |-> "he-IL-AvriNeural", voice_gender |-> "male", language |-> "he-IL"]}

NoVoice == [voice_name |-> "", voice_gender |-> "", language |-> ""]

NoArgs == [pid |-> "", target_duration |-> 0, voice |-> NoVoice, force |-> FALSE, mode |-> ""]

\* A caller's coroutine: fn and pc say where it is; args are its arguments;
\* original_duration is the local of generate_teaser_from_input; used are the
\* values of settings.max_clip_duration the extraction read; tried are the
\* providers it invoked; status and error are those of the run's project.
NoTask == [fn |-> "none", pc |-> "idle", args |-> NoArgs, original_duration |-> 0,
           used |-> {}, tried |-> <<>>, status |-> "none", error |-> ""]

\* A JSON document of the project directory: absent, or the fields written.
NoDoc == [exists |-> FALSE, voice |-> NoVoice, duration |-> 0]

NoDocuments == [input_spec |-> NoDoc, content |-> NoDoc]

\* ui.py 14-15: what the registry holds for a project id: stored is the
\* asyncio.Task under the key ("none": no key, "pending": not done(), "done");
\* alive counts the run_video_and_compose tasks of the id the event loop has
\* not finished.
NoBackgroundTask == [stored |-> "none", alive |-> 0]

Init ==
    /\ fs = [p \in Paths |-> NoFile]
    /\ metadata = NoMetadata
    /\ moviepy \in BOOLEAN
    /\ stack = <<>>
    /\ ret = NoRet
    /\ call = NoCall
    /\ project = NoProject
    /\ attempts = NoAttempts
    /\ prev = NoPrev
    /\ project_dirs = {}
    /\ settings = ConfiguredSettings
    /\ tasks = [i \in Callers |-> NoTask]
    /\ background_tasks = [pid \in ProjectIds |-> NoBackgroundTask]
    /\ documents = NoDocuments

Summary ==
    IF call.state = "returned" /\ call.op = "resumable" /\ project.status = "completed"
    THEN [op |-> "resumable", content |-> 0]
    ELSE IF call.state = "returned" /\ call.op = "step_extract"
    THEN [op |-> "step_extract", content |-> attempts["content"]]
    ELSE IF call.state = "returned" /\ call.op \in {"step_tts", "step_video", "step_compose"}
    THEN [op |-> call.op, content |-> 0]
    ELSE NoPrev

\* ---------------------------------------------------- the top-level callers
\* A caller (cli.py, ui.py) starts one entry point of the workflow.
Begin(op, force, language, frame) ==
    /\ stack = <<>>
    /\ call.state # "running"
    /\ call' = [op |-> op, force |-> force, language |-> language, state |-> "running",
                result |-> NoRet]
    /\ stack' = <<frame>>
    /\ ret' = NoRet
    /\ project' = NoProject
    /\ attempts' = NoAttempts
    /\ prev' = IF Summary.op = op THEN Summary ELSE NoPrev
    /\ fs' = Settled(fs)
    /\ metadata' = IF metadata.of = "none" THEN NoMetadata ELSE EarlierMetadata
    /\ UNCHANGED <<concurrent, project_dirs, moviepy>>

\* The outermost frame ended: the call returned ret or the exception escaped.
EndCall ==
    /\ stack = <<>>
    /\ call.state = "running"
    /\ call' = [call EXCEPT !.state = IF ret.kind = "exc" THEN "raised" ELSE "returned",
                            !.result = ret]
    /\ UNCHANGED <<concurrent, project_dirs, fs, metadata, moviepy, stack, ret, project, attempts, prev>>

\* ------------------------------------------ ContentExtractionAgent (content_agent.py)
\* extract_teaser_content, lines 48-54: the MCP service, when it is available.
extract_via_mcp ==
    /\ Running("extract_teaser_content", "mcp")
    /\ \E available \in BOOLEAN, ok \in BOOLEAN :
         IF available /\ ok
         THEN /\ attempts' = Count("remote_ok")
              /\ stack' = Pop
              /\ ret' = RetContent(File(JsonBytes, "remote"))
         ELSE /\ attempts' = attempts
              /\ stack' = IF available
                          THEN [Try("mcp") EXCEPT ![Len(stack)].pc = "openai"]
                          ELSE Goto("openai")
              /\ ret' = ret
    /\ UNCHANGED <<concurrent, project_dirs, fs, metadata, moviepy, call, project, prev>>

\* extract_teaser_content, lines 56-61: the OpenAI/Azure client, when __init__
\* configured one (self.openai_client, read here and nowhere else in a call).
extract_via_openai ==
    /\ Running("extract_teaser_content", "openai")
    /\ \E openai_client \in BOOLEAN, ok \in BOOLEAN :
         IF openai_client /\ ok
         THEN /\ attempts' = Count("remote_ok")
              /\ stack' = Pop
              /\ ret' = RetContent(File(JsonBytes, "remote"))
         ELSE /\ attempts' = attempts
              /\ stack' = IF openai_client
                          THEN [Try("openai") EXCEPT ![Len(stack)].pc = "default"]
                          ELSE Goto("default")
              /\ ret' = ret
    /\ UNCHANGED <<concurrent, project_dirs, fs, metadata, moviepy, call, project, prev>>

\* extract_teaser_content, lines 63-65: the default content.
create_default_content ==
    /\ Running("extract_teaser_content", "default")
    /\ stack' = Pop
    /\ ret' = RetContent(File(JsonBytes, "placeholder"))
    /\ UNCHANGED <<concurrent, project_dirs, fs, metadata, moviepy, call, project, attempts, prev>>

ExtractFrame == Frame("extract_teaser_content", "mcp", FALSE, NoFile)

\* ------------------------------------------------------ step_extract (workflow.py)
\* lines 313-318: the cache check, then the call of the provider chain.
step_extract_check ==
    /\ Running("step_extract", "check")
    /\ IF ContentCached(fs) /\ ~Top.force
       THEN /\ stack' = Pop
            /\ ret' = RetPath(CONTENT)
            /\ attempts' = attempts
       ELSE /\ stack' = CallFrom("write", ExtractFrame)
            /\ ret' = NoRet
            /\ attempts' = Count("content")
    /\ UNCHANGED <<concurrent, project_dirs, fs, metadata, moviepy, call, project, prev>>

\* line 319: content_json.write_text(...) opens teaser_content.json for
\* writing, which creates or empties it.
step_extract_open ==
    /\ Running("step_extract", "write")
    /\ ret.kind = "ok"
    /\ fs' = [fs EXCEPT ![CONTENT] = Opened]
    /\ stack' = Goto("write_body")
    /\ UNCHANGED <<concurrent, project_dirs, metadata, moviepy, ret, call, project, attempts, prev>>

\* lines 319-321: the text is written and the file closed; return.  A write
\* the file system refuses raises OSError and leaves the file as opened.
step_extract_write ==
    /\ Running("step_extract", "write_body")
    /\ ret.kind = "ok"
    /\ \E written \in BOOLEAN :
         IF written
         THEN /\ fs' = [fs EXCEPT ![CONTENT] = ret.content]
              /\ stack' = Pop
              /\ ret' = RetPath(CONTENT)
         ELSE /\ fs' = fs
              /\ stack' = stack
              /\ ret' = Raise("OSError")
    /\ UNCHANGED <<concurrent, project_dirs, metadata, moviepy, call, project, attempts, prev>>

call_step_extract ==
    \E force \in BOOLEAN :
        Begin("step_extract", [NoForce EXCEPT !["content"] = force], "en-US",
              Frame("step_extract", "check", force, NoFile))

\* ------------------------------------------------- AudioGenerationAgent.generate_audio
\* The speech-synthesis chain: some provider, at worst the placeholder, writes a
\* non-empty audio file under output_dir and its path is returned.
AudioProviders == {"remote", "placeholder"}

generate_audio ==
    /\ Running("generate_audio", "run")
    /\ \E by \in AudioProviders :
         /\ fs' = [fs EXCEPT ![GEN_AUDIO] = File(AudioBytes, by)]
         /\ attempts' = IF by = "placeholder" THEN attempts ELSE Count("remote_ok")
    /\ stack' = Pop
    /\ ret' = RetPath(GEN_AUDIO)
    /\ UNCHANGED <<concurrent, project_dirs, metadata, moviepy, call, project, prev>>

AudioFrame(teaser) == Frame("generate_audio", "run", FALSE, teaser)

\* ------------------------------------------------- VideoGenerationAgent.generate_video
\* Sizes of a video file that came from outside (MCP service, Sora download).
VideoSizes == {0, MinVideoBytes, ClipBytes}

\* _create_placeholder_video, _create_sora_success_placeholder: what is at
\* video_path afterwards.  Without moviepy the ImportError branch writes b"".
PlaceholderFile(by) == File(IF moviepy THEN ClipBytes ELSE 0, by)

\* The results of one generate_video call: [file at video_path, ret, remote].
\*  - lines 73-79: the MCP service returned a path (the file it names may be
\*    missing: the path is not looked at);
\*  - lines 81-86, 199-252: the Sora job completed and a download was accepted;
\*  - lines 270-273: the downloads were exhausted, the success placeholder;
\*  - lines 287-292, 88-91: the generic placeholder, in _generate_via_sora or
\*    as the final fallback; with moviepy present it may raise, and when it
\*    raises at lines 90 the exception leaves generate_video.
GenerateVideoResults ==
    LET res(f, r, remote) == [file |-> f, ret |-> r, remote |-> remote]
    IN  {res(File(sz, "remote"), RetPath(GEN_VIDEO), TRUE) : sz \in VideoSizes}
        \cup {res(NoFile, RetPath(GEN_VIDEO), TRUE)}
        \cup {res(PlaceholderFile("success_placeholder"), RetPath(GEN_VIDEO), FALSE)}
        \cup {res(PlaceholderFile("placeholder"), RetPath(GEN_VIDEO), FALSE)}
        \cup (IF moviepy
              THEN {res(NoFile, Raise("placeholder video error"), FALSE)}
              ELSE {})

generate_video ==
    /\ Running("generate_video", "run")
    /\ \E r \in GenerateVideoResults :
         /\ fs' = [fs EXCEPT ![GEN_VIDEO] = r.file]
         /\ ret' = r.ret
         /\ attempts' = IF r.remote THEN Count("remote_ok") ELSE attempts
    /\ stack' = Pop
    /\ UNCHANGED <<concurrent, project_dirs, metadata, moviepy, call, project, prev>>

VideoFrame(teaser) == Frame("generate_video", "run", FALSE, teaser)

\* ------------------------------------------------------ CompositorAgent.compose_teaser
\* VideoFileClip / AudioFileClip can open the file.
Decodable(f) == Exists(f) /\ f.size > 0

\* compositor_agent.py 41-54, 63-149.  Without moviepy the ImportError branch
\* writes three comment lines to final_path; with it the inputs are loaded and
\* the clip is written, or an error of moviepy is re-raised.
compose_teaser ==
    /\ Running("compose_teaser", "run")
    /\ LET audio == fs[Top.audio_path]
           video == fs[Top.video_path]
       IN
       IF ~moviepy
       THEN /\ fs' = [fs EXCEPT ![Top.final_path] = File(StubBytes, "stub")]
            /\ ret' = RetPath(Top.final_path)
       ELSE \E ok \in BOOLEAN :
              IF ok /\ Decodable(audio) /\ Decodable(video)
              THEN /\ fs' = [fs EXCEPT ![Top.final_path] = File(ClipBytes, "moviepy")]
                   /\ ret' = RetPath(Top.final_path)
              ELSE /\ fs' = fs
                   /\ ret' = Raise("compose error")
    /\ stack' = Pop
    /\ UNCHANGED <<concurrent, project_dirs, metadata, moviepy, call, project, attempts, prev>>

ComposeFrame_InPlace(audio_path, video_path, final_path) ==
    [Frame("compose_teaser", "run", FALSE, NoFile)
        EXCEPT !.audio_path = audio_path, !.video_path = video_path,
               !.final_path = "final"]

\* lines 41-43: final_path = output_dir/teaser_final_{project_id[:8]}.
ComposeFrame(audio_path, video_path, final_path) ==
    [Frame("compose_teaser", "run", FALSE, NoFile)
        EXCEPT !.audio_path = audio_path, !.video_path = video_path,
               !.final_path = final_path]

\* --------------------------- generate_teaser_sequential_resumable (workflow.py 192-298)
Loadable_AnyFile(f) == Exists(f)

\* json.loads(content_json.read_text()) needs a JSON document.
Loadable(f) == Exists(f) /\ f.size > 0

Status(s) == [project EXCEPT !.status = s]

Failed_KeepStatus(msg) == [project EXCEPT !.error = msg]

\* lines 107, 173, 296: project.update_status("failed", str(e)).
Failed(msg) == [project EXCEPT !.status = "failed", !.error = msg]

\* lines 222-229: status, cache check; the cached content is loaded or the
\* provider chain is called.
resumable_content ==
    /\ Running("resumable", "content")
    /\ project' = Status("extracting_content")
    /\ IF ContentCached(fs) /\ ~call.force["content"]
       THEN IF Loadable(fs[CONTENT])
            THEN /\ stack' = [Goto("audio") EXCEPT ![Len(stack)].teaser = fs[CONTENT]]
                 /\ ret' = NoRet
                 /\ attempts' = attempts
            ELSE /\ stack' = stack
                 /\ ret' = Raise("JSONDecodeError")
                 /\ attempts' = attempts
       ELSE /\ stack' = CallFrom("content_write", ExtractFrame)
            /\ ret' = NoRet
            /\ attempts' = Count("content")
    /\ UNCHANGED <<concurrent, project_dirs, fs, metadata, moviepy, call, prev>>

\* line 230: content_json.write_text(...) opens teaser_content.json for
\* writing, which creates or empties it.
resumable_content_open ==
    /\ Running("resumable", "content_write")
    /\ ret.kind = "ok"
    /\ fs' = [fs EXCEPT ![CONTENT] = Opened]
    /\ stack' = Goto("content_write_body")
    /\ UNCHANGED <<concurrent, project_dirs, metadata, moviepy, ret, call, project, attempts, prev>>

\* lines 230-231: the text is written and the file closed.  A write the file
\* system refuses raises OSError and leaves the file as opened.
resumable_content_write ==
    /\ Running("resumable", "content_write_body")
    /\ ret.kind = "ok"
    /\ \E written \in BOOLEAN :
         IF written
         THEN /\ fs' = [fs EXCEPT ![CONTENT] = ret.content]
              /\ stack' = [Goto("audio") EXCEPT ![Len(stack)].teaser = ret.content]
              /\ ret' = NoRet
         ELSE /\ fs' = fs
              /\ stack' = stack
              /\ ret' = Raise("OSError")
    /\ UNCHANGED <<concurrent, project_dirs, metadata, moviepy, call, project, attempts, prev>>

\* lines 233-240.
resumable_audio ==
    /\ Running("resumable", "audio")
    /\ ret.kind # "exc"
    /\ project' = Status("generating_audio")
    /\ IF AudioCached(fs) /\ ~call.force["audio"]
       THEN /\ stack' = [Goto("video") EXCEPT ![Len(stack)].audio_path = AUDIO]
            /\ attempts' = attempts
       ELSE /\ stack' = CallFrom("audio_move", AudioFrame(Top.teaser))
            /\ attempts' = Count("audio")
    /\ ret' = NoRet
    /\ UNCHANGED <<concurrent, project_dirs, fs, metadata, moviepy, call, prev>>

\* lines 241-243: os.replace(gen_audio_path, audio_target).
resumable_audio_move ==
    /\ Running("resumable", "audio_move")
    /\ ret.kind = "ok"
    /\ IF Exists(fs[ret.path])
       THEN /\ fs' = Replace(fs, ret.path, AUDIO)
            /\ stack' = [Goto("video") EXCEPT ![Len(stack)].audio_path = AUDIO]
            /\ ret' = NoRet
       ELSE /\ fs' = fs
            /\ stack' = stack
            /\ ret' = Raise("FileNotFoundError")
    /\ UNCHANGED <<concurrent, project_dirs, metadata, moviepy, call, project, attempts, prev>>

\* lines 245-252.
resumable_video ==
    /\ Running("resumable", "video")
    /\ ret.kind # "exc"
    /\ project' = Status("generating_video")
    /\ IF VideoCached(fs) /\ ~call.force["video"]
       THEN /\ stack' = [Goto("compose") EXCEPT ![Len(stack)].video_path = VIDEO]
            /\ attempts' = attempts
       ELSE /\ stack' = CallFrom("video_move", VideoFrame(Top.teaser))
            /\ attempts' = Count("video")
    /\ ret' = NoRet
    /\ UNCHANGED <<concurrent, project_dirs, fs, metadata, moviepy, call, prev>>

\* lines 253-255: os.replace(gen_video_path, video_target).
resumable_video_move ==
    /\ Running("resumable", "video_move")
    /\ ret.kind = "ok"
    /\ IF Exists(fs[ret.path])
       THEN /\ fs' = Replace(fs, ret.path, VIDEO)
            /\ stack' = [Goto("compose") EXCEPT ![Len(stack)].video_path = VIDEO]
            /\ ret' = NoRet
       ELSE /\ fs' = fs
            /\ stack' = stack
            /\ ret' = Raise("FileNotFoundError")
    /\ UNCHANGED <<concurrent, project_dirs, metadata, moviepy, call, project, attempts, prev>>

\* lines 257-268.
resumable_compose ==
    /\ Running("resumable", "compose")
    /\ ret.kind # "exc"
    /\ project' = Status("compositing")
    /\ IF FinalCached(fs) /\ ~call.force["compose"]
       THEN /\ stack' = Goto("metadata")
            /\ attempts' = attempts
       ELSE /\ stack' = CallFrom("compose_move", ComposeFrame(Top.audio_path, Top.video_path, GEN_FINAL))
            /\ attempts' = Count("compose")
    /\ ret' = NoRet
    /\ UNCHANGED <<concurrent, project_dirs, fs, metadata, moviepy, call, prev>>

\* lines 269-271: os.replace(composed_path, final_target).
resumable_compose_move ==
    /\ Running("resumable", "compose_move")
    /\ ret.kind = "ok"
    /\ IF Exists(fs[ret.path])
       THEN /\ fs' = Replace(fs, ret.path, FINAL)
            /\ stack' = Goto("metadata")
            /\ ret' = NoRet
       ELSE /\ fs' = fs
            /\ stack' = stack
            /\ ret' = Raise("FileNotFoundError")
    /\ UNCHANGED <<concurrent, project_dirs, metadata, moviepy, call, project, attempts, prev>>

RunMetadata_NoFlags == [of |-> "run", language |-> call.language, forced |-> NoForce]

\* lines 273-283: what the run writes to metadata.json.
RunMetadata == [of |-> "run", language |-> call.language, forced |-> call.force]

\* lines 273-294: metadata.json, the assets, status completed, return project.
resumable_metadata ==
    /\ Running("resumable", "metadata")
    /\ ret.kind # "exc"
    /\ metadata' = RunMetadata
    /\ project' = [project EXCEPT !.status = "completed",
                                  !.audio_path = Top.audio_path,
                                  !.video_path = Top.video_path,
                                  !.final_path = FINAL]
    /\ stack' = Pop
    /\ ret' = RetPath("project")
    /\ UNCHANGED <<concurrent, project_dirs, fs, moviepy, call, attempts, prev>>

\* lines 295-298: except Exception: status failed with str(e), return project.
resumable_except ==
    /\ stack # <<>>
    /\ Top.fn = "resumable"
    /\ ret.kind = "exc"
    /\ project' = Failed(ret.msg)
    /\ stack' = Pop
    /\ ret' = RetPath("project")
    /\ UNCHANGED <<concurrent, project_dirs, fs, metadata, moviepy, call, attempts, prev>>

\* lines 205-219: a caller starts the run with its language and force flags.
call_resumable ==
    \E force \in [Stages -> BOOLEAN], language \in Languages :
        Begin("resumable", force, language, Frame("resumable", "content", FALSE, NoFile))

\* -------------------------------------------------------- step_tts (workflow.py 323-356)
\* lines 333-335: if not content_json.exists(): await self.step_extract(script).
step_tts_ensure ==
    /\ Running("step_tts", "ensure")
    /\ IF ContentCached(fs)
       THEN stack' = Goto("load")
       ELSE stack' = CallFrom("load", Frame("step_extract", "check", FALSE, NoFile))
    /\ ret' = NoRet
    /\ UNCHANGED <<concurrent, project_dirs, fs, metadata, moviepy, call, project, attempts, prev>>

\* lines 336-356: load the content, cache check, generate_audio.
step_tts_check ==
    /\ Running("step_tts", "load")
    /\ ret.kind # "exc"
    /\ IF ~Loadable(fs[CONTENT])
       THEN /\ stack' = stack
            /\ ret' = Raise("JSONDecodeError")
            /\ attempts' = attempts
       ELSE IF AudioCached(fs) /\ ~Top.force
       THEN /\ stack' = Pop
            /\ ret' = RetPath(AUDIO)
            /\ attempts' = attempts
       ELSE /\ stack' = CallFrom("move", AudioFrame(fs[CONTENT]))
            /\ ret' = NoRet
            /\ attempts' = Count("audio")
    /\ UNCHANGED <<concurrent, project_dirs, fs, metadata, moviepy, call, project, prev>>

\* lines 354-356: os.replace(gen_audio_path, audio_target), return.
step_tts_move ==
    /\ Running("step_tts", "move")
    /\ ret.kind = "ok"
    /\ IF Exists(fs[ret.path])
       THEN /\ fs' = Replace(fs, ret.path, AUDIO)
            /\ stack' = Pop
            /\ ret' = RetPath(AUDIO)
       ELSE /\ fs' = fs
            /\ stack' = stack
            /\ ret' = Raise("FileNotFoundError")
    /\ UNCHANGED <<concurrent, project_dirs, metadata, moviepy, call, project, attempts, prev>>

\* ------------------------------------------------------ step_video (workflow.py 358-378)
\* lines 365-367.
step_video_ensure ==
    /\ Running("step_video", "ensure")
    /\ IF ContentCached(fs)
       THEN stack' = Goto("load")
       ELSE stack' = CallFrom("load", Frame("step_extract", "check", FALSE, NoFile))
    /\ ret' = NoRet
    /\ UNCHANGED <<concurrent, project_dirs, fs, metadata, moviepy, call, project, attempts, prev>>

\* lines 368-375: load the content, cache check, generate_video.
step_video_check ==
    /\ Running("step_video", "load")
    /\ ret.kind # "exc"
    /\ IF ~Loadable(fs[CONTENT])
       THEN /\ stack' = stack
            /\ ret' = Raise("JSONDecodeError")
            /\ attempts' = attempts
       ELSE IF VideoCached(fs) /\ ~Top.force
       THEN /\ stack' = Pop
            /\ ret' = RetPath(VIDEO)
            /\ attempts' = attempts
       ELSE /\ stack' = CallFrom("move", VideoFrame(fs[CONTENT]))
            /\ ret' = NoRet
            /\ attempts' = Count("video")
    /\ UNCHANGED <<concurrent, project_dirs, fs, metadata, moviepy, call, project, prev>>

\* lines 376-378: os.replace(gen_video_path, video_target), return.
step_video_move ==
    /\ Running("step_video", "move")
    /\ ret.kind = "ok"
    /\ IF Exists(fs[ret.path])
       THEN /\ fs' = Replace(fs, ret.path, VIDEO)
            /\ stack' = Pop
            /\ ret' = RetPath(VIDEO)
       ELSE /\ fs' = fs
            /\ stack' = stack
            /\ ret' = Raise("FileNotFoundError")
    /\ UNCHANGED <<concurrent, project_dirs, metadata, moviepy, call, project, attempts, prev>>

\* ---------------------------------------------------- step_compose (workflow.py 380-406)
\* line 389: not audio_target.exists() or audio_target.stat().st_size == 0.
ComposeAudioMissing(files) == ~Exists(files[AUDIO]) \/ files[AUDIO].size = 0

\* line 391: not video_target.exists() or video_target.stat().st_size < 1024.
ComposeVideoMissing(files) ==
    ~Exists(files[VIDEO]) \/ files[VIDEO].size < ComposeMinVideoBytes

\* lines 388-390: if not audio_target.exists() or st_size == 0: step_tts.
step_compose_audio ==
    /\ Running("step_compose", "audio")
    /\ IF ComposeAudioMissing(fs)
       THEN stack' = CallFrom("video", Frame("step_tts", "ensure", FALSE, NoFile))
       ELSE stack' = Goto("video")
    /\ ret' = NoRet
    /\ UNCHANGED <<concurrent, project_dirs, fs, metadata, moviepy, call, project, attempts, prev>>

\* lines 391-392: if not video_target.exists() or st_size < 1024: step_video.
step_compose_video ==
    /\ Running("step_compose", "video")
    /\ ret.kind # "exc"
    /\ IF ComposeVideoMissing(fs)
       THEN stack' = CallFrom("check", Frame("step_video", "ensure", FALSE, NoFile))
       ELSE stack' = Goto("check")
    /\ ret' = NoRet
    /\ UNCHANGED <<concurrent, project_dirs, fs, metadata, moviepy, call, project, attempts, prev>>

\* lines 394-403: cache check, compose_teaser on the canonical audio and video.
step_compose_check ==
    /\ Running("step_compose", "check")
    /\ ret.kind # "exc"
    /\ IF FinalCached(fs) /\ ~Top.force
       THEN /\ stack' = Pop
            /\ ret' = RetPath(FINAL)
            /\ attempts' = attempts
       ELSE /\ stack' = CallFrom("move", ComposeFrame(AUDIO, VIDEO, GEN_FINAL))
            /\ ret' = NoRet
            /\ attempts' = Count("compose")
    /\ UNCHANGED <<concurrent, project_dirs, fs, metadata, moviepy, call, project, prev>>

\* lines 404-406: os.replace(composed_path, final_target), return.
step_compose_move ==
    /\ Running("step_compose", "move")
    /\ ret.kind = "ok"
    /\ IF Exists(fs[ret.path])
       THEN /\ fs' = Replace(fs, ret.path, FINAL)
            /\ stack' = Pop
            /\ ret' = RetPath(FINAL)
       ELSE /\ fs' = fs
            /\ stack' = stack
            /\ ret' = Raise("FileNotFoundError")
    /\ UNCHANGED <<concurrent, project_dirs, metadata, moviepy, call, project, attempts, prev>>

\* cli.py 430-467, ui.py 141-161: a caller runs one step with its force flag.
call_step ==
    \E step \in {"step_tts", "step_video", "step_compose"}, force \in BOOLEAN :
        LET stage == CASE step = "step_tts" -> "audio"
                       [] step = "step_video" -> "video"
                       [] OTHER -> "compose"
        IN  Begin(step, [NoForce EXCEPT ![stage] = force], "en-US",
                  Frame(step, IF step = "step_compose" THEN "audio" ELSE "ensure",
                        force, NoFile))

\* ------------------------------------------------ api_status (teaser_web/routers/ui.py)
\* lines 193-194: present(p, min_size): p.exists() and p.stat().st_size >= min_size.
present(f, min_size) == Exists(f) /\ f.size >= min_size

\* lines 196-198: which of the three artifacts the status endpoint reports.
api_status(files) ==
    [audio |-> present(files[AUDIO], StatusMinAudioBytes),
     video |-> present(files[VIDEO], StatusMinVideoBytes),
     final |-> present(files[FINAL], StatusMinVideoBytes)]

\* ------------- generate_teaser, generate_teaser_from_enhanced_content (workflow.py 40-176)
\* Both create a project with a uuid4 id and work under output_dir only.
OneShot == {"generate_teaser", "generate_teaser_from_enhanced_content"}

\* lines 135-139: status extracting_content, the provider chain.
generate_teaser_extract ==
    /\ Running("generate_teaser", "extract")
    /\ project' = Status("extracting_content")
    /\ stack' = CallFrom("media", ExtractFrame)
    /\ attempts' = Count("content")
    /\ ret' = NoRet
    /\ UNCHANGED <<concurrent, project_dirs, fs, metadata, moviepy, call, prev>>

\* lines 72-80, 140-149: status generating_media; the two coroutines are
\* created and asyncio.gather schedules both as tasks, audio first.
oneshot_media ==
    /\ stack # <<>> /\ Top.fn \in OneShot /\ Top.pc = "media"
    /\ ret.kind # "exc"
    /\ project' = Status("generating_media")
    /\ LET teaser == IF Top.fn = "generate_teaser" THEN ret.content ELSE Top.teaser IN
       stack' = [Goto("gather") EXCEPT ![Len(stack)].teaser = teaser,
                                       ![Len(stack)].audio_task = "pending",
                                       ![Len(stack)].video_task = "pending"]
    /\ ret' = NoRet
    /\ UNCHANGED <<concurrent, project_dirs, fs, metadata, moviepy, call, attempts, prev>>

Gathering == stack # <<>> /\ Top.fn \in OneShot /\ Top.pc = "gather" /\ ret.kind # "exc"

\* lines 80, 149: the event loop runs the audio task up to its first await.
gather_audio_start ==
    /\ Gathering
    /\ Top.audio_task = "pending"
    /\ stack' = [stack EXCEPT ![Len(stack)].audio_task = "running"]
    /\ attempts' = Count("audio")
    /\ UNCHANGED <<concurrent, project_dirs, fs, metadata, moviepy, ret, call, project, prev>>

\* lines 80, 149: the video task is next in the loop's queue: it starts once
\* the audio task has been suspended or has ended.
gather_video_start ==
    /\ Gathering
    /\ Top.audio_task # "pending"
    /\ Top.video_task = "pending"
    /\ stack' = [stack EXCEPT ![Len(stack)].video_task = "running"]
    /\ attempts' = Count("video")
    /\ UNCHANGED <<concurrent, project_dirs, fs, metadata, moviepy, ret, call, project, prev>>

\* lines 80, 149: the audio task ends with the result of generate_audio.
gather_audio_finish ==
    /\ Gathering
    /\ Top.audio_task = "running"
    /\ \E by \in AudioProviders :
         /\ fs' = [fs EXCEPT ![GEN_AUDIO] = File(AudioBytes, by)]
         /\ attempts' = IF by = "placeholder" THEN attempts ELSE Count("remote_ok")
    /\ stack' = [stack EXCEPT ![Len(stack)].audio_task = "done",
                              ![Len(stack)].audio_path = GEN_AUDIO]
    /\ UNCHANGED <<concurrent, project_dirs, metadata, moviepy, ret, call, project, prev>>

\* lines 80, 149: the video task ends with the result of generate_video; an
\* exception of a task is raised by the gather at once.
gather_video_finish ==
    /\ Gathering
    /\ Top.video_task = "running"
    /\ \E r \in GenerateVideoResults :
         /\ fs' = [fs EXCEPT ![GEN_VIDEO] = r.file]
         /\ attempts' = IF r.remote THEN Count("remote_ok") ELSE attempts
         /\ IF r.ret.kind = "ok"
            THEN /\ stack' = [stack EXCEPT ![Len(stack)].video_task = "done",
                                           ![Len(stack)].video_path = r.ret.path]
                 /\ ret' = ret
            ELSE /\ stack' = [stack EXCEPT ![Len(stack)].video_task = "raised"]
                 /\ ret' = r.ret
    /\ UNCHANGED <<concurrent, project_dirs, metadata, moviepy, call, project, prev>>

\* lines 82-90, 151-159: both tasks ended; status compositing, compose_teaser
\* on the two paths.
oneshot_compose ==
    /\ Gathering
    /\ Top.audio_task = "done"
    /\ Top.video_task = "done"
    /\ project' = Status("compositing")
    /\ stack' = Append(Goto("finish"),
                       ComposeFrame(Top.audio_path, Top.video_path, GEN_FINAL_UUID))
    /\ attempts' = Count("compose")
    /\ ret' = NoRet
    /\ UNCHANGED <<concurrent, project_dirs, fs, metadata, moviepy, call, prev>>

\* lines 92-110, 161-176: the assets, status completed, return project.
oneshot_finish ==
    /\ stack # <<>> /\ Top.fn \in OneShot /\ Top.pc = "finish"
    /\ ret.kind = "ok"
    /\ project' = [project EXCEPT !.status = "completed",
                                  !.audio_path = Top.audio_path,
                                  !.video_path = Top.video_path,
                                  !.final_path = ret.path]
    /\ stack' = Pop
    /\ ret' = RetPath("project")
    /\ UNCHANGED <<concurrent, project_dirs, fs, metadata, moviepy, call, attempts, prev>>

\* lines 171-174: except Exception: status failed with str(e); raise.
generate_teaser_except ==
    /\ stack # <<>> /\ Top.fn = "generate_teaser"
    /\ ret.kind = "exc"
    /\ project' = Failed(ret.msg)
    /\ stack' = Pop
    /\ UNCHANGED <<concurrent, project_dirs, fs, metadata, moviepy, ret, call, attempts, prev>>

\* lines 106-110: except Exception: status failed with str(e); return project.
enhanced_except ==
    /\ stack # <<>> /\ Top.fn = "generate_teaser_from_enhanced_content"
    /\ ret.kind = "exc"
    /\ project' = Failed(ret.msg)
    /\ stack' = Pop
    /\ ret' = RetPath("project")
    /\ UNCHANGED <<concurrent, project_dirs, fs, metadata, moviepy, call, attempts, prev>>

\* cli.py 113: generate_teaser_from_text; a caller with content of its own.
call_oneshot ==
    \/ Begin("generate_teaser", NoForce, "en-US",
             Frame("generate_teaser", "extract", FALSE, NoFile))
    \/ Begin("generate_teaser_from_enhanced_content", NoForce, "en-US",
             Frame("generate_teaser_from_enhanced_content", "media", FALSE,
                   File(JsonBytes, "caller")))

\* ------------------------------------- VideoGenerationAgent, step by step (video_agent.py)
\* The same generate_video, one action per provider attempt, poll and download.
Latencies == 0..MaxLatency

RECURSIVE Power(_, _)
Power(b, e) == IF e <= 0 THEN 1 ELSE b * Power(b, e - 1)

\* _create_placeholder_video (326-385), _create_sora_success_placeholder
\* (453-518): "written" leaves the clip, or b"" on ImportError; "raised" is an
\* error of moviepy, re-raised.
PlaceholderOutcomes == IF moviepy THEN {"written", "raised"} ELSE {"written"}

\* lines 73-79: the MCP service, when available; its result names the file.
video_via_mcp ==
    /\ Running("generate_video", "mcp")
    /\ \E available \in BOOLEAN, ok \in BOOLEAN, f \in {File(sz, "remote") : sz \in VideoSizes} \cup {NoFile} :
         IF available /\ ok
         THEN /\ fs' = [fs EXCEPT ![GEN_VIDEO] = f]
              /\ attempts' = Count("remote_ok")
              /\ stack' = Pop
              /\ ret' = RetPath(GEN_VIDEO)
         ELSE /\ fs' = fs
              /\ attempts' = attempts
              /\ stack' = IF available
                          THEN [Try("mcp") EXCEPT ![Len(stack)].pc = "sora"]
                          ELSE Goto("sora")
              /\ ret' = NoRet
    /\ UNCHANGED <<concurrent, project_dirs, metadata, moviepy, call, project, prev>>

\* lines 81-84: if self.sora_client: return await self._generate_via_sora(...).
video_via_sora ==
    /\ Running("generate_video", "sora")
    /\ \E sora_client \in BOOLEAN :
         IF sora_client
         THEN stack' = Append([Try("sora") EXCEPT ![Len(stack)].pc = "sora_ret"],
                              Frame("generate_via_sora", "submit", FALSE, Top.teaser))
         ELSE stack' = Goto("placeholder")
    /\ ret' = NoRet
    /\ UNCHANGED <<concurrent, project_dirs, fs, metadata, moviepy, call, project, attempts, prev>>

\* lines 84-86: the path _generate_via_sora returned, or except Exception.
video_sora_returned ==
    /\ Running("generate_video", "sora_ret")
    /\ IF ret.kind = "ok"
       THEN /\ stack' = Pop
            /\ ret' = ret
       ELSE /\ stack' = Goto("placeholder")
            /\ ret' = NoRet
    /\ UNCHANGED <<concurrent, project_dirs, fs, metadata, moviepy, call, project, attempts, prev>>

\* lines 88-91: the final fallback; an error of the placeholder leaves generate_video.
video_placeholder ==
    /\ Running("generate_video", "placeholder")
    /\ \E outcome \in PlaceholderOutcomes :
         IF outcome = "written"
         THEN /\ fs' = [fs EXCEPT ![GEN_VIDEO] = PlaceholderFile("placeholder")]
              /\ ret' = RetPath(GEN_VIDEO)
         ELSE /\ fs' = fs
              /\ ret' = Raise("placeholder video error")
    /\ stack' = Pop
    /\ UNCHANGED <<concurrent, project_dirs, metadata, moviepy, call, project, attempts, prev>>

\* lines 160-176: submit the job; any failure is raised inside the try.
sora_submit ==
    /\ Running("generate_via_sora", "submit")
    /\ \E ok \in BOOLEAN :
         IF ok
         THEN /\ stack' = [Goto("poll") EXCEPT ![Len(stack)].t = 0]
              /\ ret' = ret
         ELSE /\ stack' = Goto("except")
              /\ ret' = Raise("Failed to submit Sora job")
    /\ UNCHANGED <<concurrent, project_dirs, fs, metadata, moviepy, call, project, attempts, prev>>

PollStatuses == {"http_error", "completed", "completed_empty", "failed", "running", "unknown"}

\* line 277: status_data.get("error", "Unknown error").
RemoteErrors == {"Unknown error", "content policy"}

PollNext_FailedContinues(status) ==
    CASE status = "completed" -> "download"
      [] status = "completed_empty" -> "except"
      [] OTHER -> "poll"

PollNext_UnknownFatal(status) ==
    CASE status = "completed" -> "download"
      [] status \in {"completed_empty", "failed", "unknown"} -> "except"
      [] OTHER -> "poll"

\* lines 182-283: where one status answer leads: a response that is not 200
\* continues (183); completed or succeeded with generations goes to the
\* download (188-211), without generations raises (275); failed raises (278);
\* an in-flight status continues (281) and so does any other status (283).
PollNext(status) ==
    CASE status = "completed" -> "download"
      [] status \in {"completed_empty", "failed"} -> "except"
      [] OTHER -> "poll"

\* The exception a status answer raises (lines 275, 278).
PollError(status, error) ==
    IF status = "failed" THEN Raise("Sora job failed: " \o error)
    ELSE Raise("No generations found in completed job")

\* lines 178-188, 274-283: one turn of the poll loop: sleep 5 s, query the status.
sora_poll ==
    /\ Running("generate_via_sora", "poll")
    /\ Top.t < max_wait * TicksPerSecond
    /\ \E status \in PollStatuses, error \in RemoteErrors, latency \in Latencies :
         LET t == Top.t + poll_interval * TicksPerSecond + latency
             seen == [Top EXCEPT !.status = status,
                                 !.error = IF status = "failed" THEN error ELSE ""]
         IN
         /\ status # "failed" => error = "Unknown error"
         /\ stack' = [stack EXCEPT ![Len(stack)] =
                        CASE PollNext(status) = "download" ->
                               [seen EXCEPT !.pc = "download", !.t = 0, !.n = 0]
                          [] PollNext(status) = "except" -> [seen EXCEPT !.pc = "except"]
                          [] OTHER -> [seen EXCEPT !.t = t]]
         /\ ret' = IF PollNext(status) = "except" THEN PollError(status, error) ELSE ret
    /\ UNCHANGED <<concurrent, project_dirs, fs, metadata, moviepy, call, project, attempts, prev>>

\* line 285: raise Exception("Sora job timed out").
sora_poll_timeout ==
    /\ Running("generate_via_sora", "poll")
    /\ Top.t >= max_wait * TicksPerSecond
    /\ stack' = Goto("except")
    /\ ret' = Raise("Sora job timed out")
    /\ attempts' = Count("poll_timeout")
    /\ UNCHANGED <<concurrent, project_dirs, fs, metadata, moviepy, call, project, prev>>

\* What a download response can declare and deliver: the content-length header
\* (NotANumber when int() rejects it, 0 when absent or "0") and the bytes of
\* the body that arrive before it ends.
NotANumber == -1

ContentLengths == {NotANumber, 0, min_content_length, ClipBytes}

BodySizes == {0, MinVideoBytes, ClipBytes}

DownloadReady_AtLeast(status_ok, ctype_video, clen) ==
    status_ok /\ (ctype_video \/ clen >= min_content_length)

\* line 227: status_code == 200 and ('video/' in ctype or int(clen or 0) > 1000).
DownloadReady(status_ok, ctype_video, clen) ==
    status_ok /\ (ctype_video \/ clen > min_content_length)

SleepFor_NoCap(n, jitter) ==
    sora_download_retry_initial_delay * Power(sora_download_retry_backoff, n - 1)
        * TicksPerSecond + jitter

\* lines 265: min(delay * backoff ** (attempts - 1) + jitter, 30), in ticks.
SleepFor(n, jitter) ==
    LET raw == sora_download_retry_initial_delay * Power(sora_download_retry_backoff, n - 1)
                  * TicksPerSecond + jitter
        cap == sleep_cap * TicksPerSecond
    IN  IF raw < cap THEN raw ELSE cap

Jitters == {0, TicksPerSecond \div 2}

DownloadLoop_AttemptsOnly(frame) == frame.n < sora_download_retry_max_attempts

\* line 218: the condition of the download loop.
DownloadLoop(frame) ==
    /\ frame.n < sora_download_retry_max_attempts
    /\ frame.t < sora_download_retry_max_seconds * TicksPerSecond

Outcome_IgnoreLength(resp) ==
    IF ~resp.status_ok THEN "not_ready"
    ELSE IF ~resp.ctype_video /\ resp.clen = NotANumber THEN "error"
    ELSE IF ~DownloadReady(resp.status_ok, resp.ctype_video, resp.clen) THEN "not_ready"
    ELSE IF resp.clen = NotANumber THEN "error"
    ELSE IF ~resp.stream_ok THEN "stream_error"
    ELSE "downloaded"

\* How reading a response ends (lines 222-261).
\*  "error": int() rejected the content-length (ValueError, caught at 259);
\*  "not_ready": the response is not a ready video (lines 253-258);
\*  "stream_error": the body broke off with an exception, the .part file stays;
\*  "partial": fewer bytes than declared, the .part file is removed (237-246);
\*  "downloaded": os.replace(tmp_path, output_path) (line 248).
Outcome(resp) ==
    IF ~resp.status_ok THEN "not_ready"
    ELSE IF ~resp.ctype_video /\ resp.clen = NotANumber THEN "error"
    ELSE IF ~DownloadReady(resp.status_ok, resp.ctype_video, resp.clen) THEN "not_ready"
    ELSE IF resp.clen = NotANumber THEN "error"
    ELSE IF ~resp.stream_ok THEN "stream_error"
    ELSE IF resp.clen # 0 /\ resp.delivered < resp.clen THEN "partial"
    ELSE "downloaded"

Responses ==
    [status_ok : BOOLEAN, ctype_video : BOOLEAN, clen : ContentLengths,
     stream_ok : BOOLEAN, delivered : BodySizes]

\* lines 218-221: the loop condition holds, attempts += 1, the GET is sent; it
\* raises (caught at line 259) or its response arrives.
sora_download_request ==
    /\ Running("generate_via_sora", "download")
    /\ DownloadLoop(Top)
    /\ \E request_ok \in BOOLEAN, resp \in Responses, latency \in Latencies :
         stack' = [stack EXCEPT ![Len(stack)] =
                     IF request_ok
                     THEN [Top EXCEPT !.n = @ + 1, !.t = @ + latency, !.resp = resp,
                                      !.pc = "response"]
                     ELSE [Top EXCEPT !.n = @ + 1, !.t = @ + latency, !.last = "error",
                                      !.pc = "backoff"]]
    /\ UNCHANGED <<concurrent, project_dirs, fs, metadata, moviepy, ret, call, project, attempts, prev>>

\* lines 222-261: the response is read: the body goes to output_path + ".part",
\* which is renamed to output_path when nothing is missing.
sora_download_response ==
    /\ Running("generate_via_sora", "response")
    /\ LET resp == Top.resp
           outcome == Outcome(resp)
           frame == [Top EXCEPT !.last = outcome, !.resp = NoResp, !.pc = "backoff"]
       IN  CASE outcome = "downloaded" ->
                  /\ fs' = [fs EXCEPT ![GEN_VIDEO] = File(resp.delivered, "remote"),
                                      ![GEN_VIDEO_PART] = NoFile]
                  /\ attempts' = Count("remote_ok")
                  /\ stack' = Pop
                  /\ ret' = RetPath(GEN_VIDEO)
             [] outcome = "stream_error" ->
                  /\ fs' = [fs EXCEPT ![GEN_VIDEO_PART] = File(resp.delivered, "remote")]
                  /\ attempts' = attempts
                  /\ stack' = [stack EXCEPT ![Len(stack)] = frame]
                  /\ ret' = ret
             [] outcome = "partial" ->
                  /\ fs' = [fs EXCEPT ![GEN_VIDEO_PART] = NoFile]
                  /\ attempts' = attempts
                  /\ stack' = [stack EXCEPT ![Len(stack)] = frame]
                  /\ ret' = ret
             [] OTHER ->
                  /\ fs' = fs
                  /\ attempts' = attempts
                  /\ stack' = [stack EXCEPT ![Len(stack)] = frame]
                  /\ ret' = ret
    /\ UNCHANGED <<concurrent, project_dirs, metadata, moviepy, call, project, prev>>

\* lines 263-268: the sleep after a failed attempt.
sora_backoff ==
    /\ Running("generate_via_sora", "backoff")
    /\ \E jitter \in Jitters :
         stack' = [stack EXCEPT ![Len(stack)].pc = "download",
                                ![Len(stack)].t = @ + SleepFor(Top.n, jitter)]
    /\ UNCHANGED <<concurrent, project_dirs, fs, metadata, moviepy, ret, call, project, attempts, prev>>

\* lines 270-273: the loop ended without a download; the job did complete, so
\* the "generated successfully" placeholder is written and the path returned.
sora_success_placeholder ==
    /\ Running("generate_via_sora", "download")
    /\ ~DownloadLoop(Top)
    /\ \E outcome \in PlaceholderOutcomes :
         IF outcome = "written"
         THEN /\ fs' = [fs EXCEPT ![GEN_VIDEO] = PlaceholderFile("success_placeholder")]
              /\ stack' = Pop
              /\ ret' = RetPath(GEN_VIDEO)
         ELSE /\ fs' = fs
              /\ stack' = Goto("except")
              /\ ret' = Raise("placeholder video error")
    /\ UNCHANGED <<concurrent, project_dirs, metadata, moviepy, call, project, attempts, prev>>

\* lines 287-292: except Exception: the generic placeholder, return output_path;
\* an error of the placeholder leaves _generate_via_sora.  The generate_video
\* that called has now had _create_placeholder_video attempted.
sora_except ==
    /\ Running("generate_via_sora", "except")
    /\ \E outcome \in PlaceholderOutcomes :
         IF outcome = "written"
         THEN /\ fs' = [fs EXCEPT ![GEN_VIDEO] = PlaceholderFile("placeholder")]
              /\ ret' = RetPath(GEN_VIDEO)
         ELSE /\ fs' = fs
              /\ ret' = Raise("placeholder video error")
    /\ stack' = [Pop EXCEPT ![Len(stack) - 1].tried = Append(@, "placeholder")]
    /\ UNCHANGED <<concurrent, project_dirs, metadata, moviepy, call, project, attempts, prev>>

\* A caller of the agents themselves (ui.py and the tests call them directly).
call_generate_video ==
    Begin("generate_video", NoForce, "en-US", Frame("generate_video", "mcp", FALSE, NoFile))

call_extract_teaser_content ==
    Begin("extract_teaser_content", NoForce, "en-US", ExtractFrame)

\* --------------------------- CompositorAgent, step by step (compositor_agent.py 56-149)
\* Durations a loaded clip can have, in hundredths of a second; a clip without
\* frames or samples has duration 0.
AudioDurations == {0, 5, 700, 705, 706, 1400, 1403, 2200}

VideoDurations == {0, 50, 695, 700, 2200, 2206}

\* lines 63-65, 140-146: the import; on ImportError the text stub is written.
compose_import ==
    /\ Running("compose_with_moviepy", "import")
    /\ IF moviepy
       THEN /\ fs' = fs
            /\ stack' = Goto("load")
            /\ ret' = ret
       ELSE /\ fs' = [fs EXCEPT ![Top.final_path] = File(StubBytes, "stub")]
            /\ stack' = Pop
            /\ ret' = RetPath(Top.final_path)
    /\ UNCHANGED <<concurrent, project_dirs, metadata, moviepy, call, project, attempts, prev>>

\* lines 72-76: VideoFileClip(video_path), AudioFileClip(audio_path); a file
\* that cannot be decoded raises (re-raised at 147-149).
compose_load ==
    /\ Running("compose_with_moviepy", "load")
    /\ \E ok \in BOOLEAN, ta \in AudioDurations, tv \in VideoDurations :
         IF ok
         THEN /\ stack' = [stack EXCEPT ![Len(stack)].ta = ta, ![Len(stack)].tv = tv,
                                        ![Len(stack)].pc = "branch"]
              /\ ret' = ret
         ELSE /\ stack' = Pop
              /\ ret' = Raise("compose error")
    /\ UNCHANGED <<concurrent, project_dirs, fs, metadata, moviepy, call, project, attempts, prev>>

\* lines 80, 86-95, 111-116: the audio is longer: start the ping-pong loop;
\* otherwise the video with the audio, trimmed when it is longer.
compose_branch ==
    /\ Running("compose_with_moviepy", "branch")
    /\ stack' = IF Top.ta > Top.tv + tolerance
                THEN [stack EXCEPT ![Len(stack)].pc = "loop", ![Len(stack)].tried = <<>>,
                                   ![Len(stack)].t = 0, ![Len(stack)].n = 0]
                ELSE [stack EXCEPT ![Len(stack)].pc = "write",
                                   ![Len(stack)].t = IF Top.tv > Top.ta + tolerance
                                                     THEN Top.ta ELSE Top.tv]
    /\ UNCHANGED <<concurrent, project_dirs, fs, metadata, moviepy, ret, call, project, attempts, prev>>

ComposeLoop_CyclesOnly(frame) == frame.n < max_cycles

ComposeLoop_TotalOnly(frame) == frame.t < frame.ta

\* line 96: while total < audio.duration and cycles < max_cycles.
ComposeLoop(frame) == frame.t < frame.ta /\ frame.n < max_cycles

\* lines 96-102: one cycle: the forward copy, then the reversed copy unless
\* total has reached audio.duration.
compose_cycle ==
    /\ Running("compose_with_moviepy", "loop")
    /\ ComposeLoop(Top)
    /\ LET both == Top.t + Top.tv < Top.ta IN
       stack' = [stack EXCEPT
                    ![Len(stack)].tried = IF both THEN @ \o <<"video", "rev">>
                                          ELSE Append(@, "video"),
                    ![Len(stack)].t = IF both THEN @ + 2 * Top.tv ELSE @ + Top.tv,
                    ![Len(stack)].n = @ + 1]
    /\ UNCHANGED <<concurrent, project_dirs, fs, metadata, moviepy, ret, call, project, attempts, prev>>

\* lines 103-109: concatenate_videoclips(seq); subclipped(0, audio.duration)
\* when the sequence is more than the tolerance longer than the audio.
compose_concat ==
    /\ Running("compose_with_moviepy", "loop")
    /\ ~ComposeLoop(Top)
    /\ stack' = [stack EXCEPT ![Len(stack)].pc = "write",
                              ![Len(stack)].t = IF Top.t > Top.ta + tolerance
                                                THEN Top.ta ELSE Top.t]
    /\ UNCHANGED <<concurrent, project_dirs, fs, metadata, moviepy, ret, call, project, attempts, prev>>

\* lines 118-138: write_videofile(output_path); an error is re-raised (147-149).
compose_write ==
    /\ Running("compose_with_moviepy", "write")
    /\ \E ok \in BOOLEAN :
         IF ok
         THEN /\ fs' = [fs EXCEPT ![Top.final_path] = File(ClipBytes, "moviepy")]
              /\ ret' = RetPath(Top.final_path)
         ELSE /\ fs' = fs
              /\ ret' = Raise("compose error")
    /\ stack' = Pop
    /\ UNCHANGED <<concurrent, project_dirs, metadata, moviepy, call, project, attempts, prev>>

\* compose_teaser (19-54) on two paths: final_path is derived and
\* _compose_with_moviepy is awaited; its exception is re-raised (52-54).
call_compose_teaser ==
    Begin("compose_teaser", NoForce, "en-US",
          [ComposeFrame(GEN_AUDIO, GEN_VIDEO, GEN_FINAL) EXCEPT
              !.fn = "compose_with_moviepy", !.pc = "import"])

\* ------------------------------------------ _stable_id_and_dir (workflow.py 300-305)
\* Titles and texts of requests; '|' may occur in either.
Titles == {"a", "a|b", "a|", ""}

Texts == {"c", "b|c", "|c"}

\* hashlib.sha1(...).hexdigest()[:12], taken as free of collisions: equal ids
\* for equal strings only.
Sha1Prefix(string) == <<"sha1", string>>

\* line 302: the string digested is f"{script.title}|{script.content}".
StableId(title, content) == Sha1Prefix(title \o "|" \o content)

\* lines 300-305 (and 207-210): the id of the request, and its directory
\* output_dir/<id> is made.
stable_id_and_dir ==
    /\ stack = <<>>
    /\ Cardinality(project_dirs) < MaxRequests
    /\ \E title \in Titles, content \in Texts :
         project_dirs' = project_dirs \cup
             {[title |-> title, content |-> content, id |-> StableId(title, content)]}
    /\ UNCHANGED <<concurrent, fs, metadata, moviepy, stack, ret, call, project, attempts, prev>>

\* A frame that is not inside a try block lets the exception through.
Propagate ==
    /\ stack # <<>>
    /\ ret.kind = "exc"
    /\ Top.fn \in {"step_extract", "step_tts", "step_video", "step_compose"}
    /\ stack' = Pop
    /\ UNCHANGED <<concurrent, project_dirs, fs, metadata, moviepy, ret, call, project, attempts, prev>>

Next ==
    \/ call_resumable
    \/ resumable_content
    \/ resumable_content_open
    \/ resumable_content_write
    \/ resumable_audio
    \/ resumable_audio_move
    \/ resumable_video
    \/ resumable_video_move
    \/ resumable_compose
    \/ resumable_compose_move
    \/ resumable_metadata
    \/ resumable_except
    \/ generate_audio
    \/ generate_video
    \/ compose_teaser
    \/ call_oneshot
    \/ generate_teaser_extract
    \/ oneshot_media
    \/ gather_audio_start
    \/ gather_video_start
    \/ gather_audio_finish
    \/ gather_video_finish
    \/ oneshot_compose
    \/ oneshot_finish
    \/ generate_teaser_except
    \/ enhanced_except
    \/ call_step
    \/ step_tts_ensure
    \/ step_tts_check
    \/ step_tts_move
    \/ step_video_ensure
    \/ step_video_check
    \/ step_video_move
    \/ step_compose_audio
    \/ step_compose_video
    \/ step_compose_check
    \/ step_compose_move
    \/ Propagate
    \/ call_step_extract
    \/ step_extract_check
    \/ step_extract_open
    \/ step_extract_write
    \/ extract_via_mcp
    \/ extract_via_openai
    \/ create_default_content
    \/ EndCall

Spec == Init /\ [][Next]_vars

\* The agents on their own: the content chain and generate_video step by step.
NextAgents ==
    \/ call_generate_video
    \/ video_via_mcp
    \/ video_via_sora
    \/ video_sora_returned
    \/ video_placeholder
    \/ sora_submit
    \/ sora_poll
    \/ sora_poll_timeout
    \/ sora_download_request
    \/ sora_download_response
    \/ sora_backoff
    \/ sora_success_placeholder
    \/ sora_except
    \/ call_extract_teaser_content
    \/ extract_via_mcp
    \/ extract_via_openai
    \/ create_default_content
    \/ EndCall

SpecAgents == Init /\ [][NextAgents]_vars

\* The event loop resumes a coroutine that can run: a sleep ends, a request
\* is answered or fails.
SpecAgentsFair == SpecAgents /\ WF_vars(NextAgents)

\* The compositor on its own, step by step.
NextCompose ==
    \/ call_compose_teaser
    \/ compose_import
    \/ compose_load
    \/ compose_branch
    \/ compose_cycle
    \/ compose_concat
    \/ compose_write
    \/ EndCall

SpecCompose == Init /\ [][NextCompose]_vars

\* The identity of requests on its own.
NextIdentity == stable_id_and_dir

SpecIdentity == Init /\ [][NextIdentity]_vars

\* ------------------------- step_generate_from_input (workflow.py 408-463) and
\* ------------------------- generate_teaser_from_input (content_agent.py 67-90),
\* called by several requests on one event loop: a step runs from one await
\* that suspends to the next.
\* The requests of the model, all for one title and text: they differ in
\* target duration, voice and force.
InputArgs ==
    LET Jenny == CHOOSE v \in Voices : v.language = "en-US"
        Avri == CHOOSE v \in Voices : v.language = "he-IL"
    IN  {[pid |-> "p", target_duration |-> 10, voice |-> Jenny, force |-> FALSE, mode |-> "audio"],
         [pid |-> "p", target_duration |-> 15, voice |-> Avri, force |-> FALSE, mode |-> "audio"],
         [pid |-> "p", target_duration |-> 15, voice |-> Avri, force |-> TRUE, mode |-> "audio"]}

MidCall(task) == task.pc \notin {"idle", "returned", "raised"}

\* The sequential workflow and the agents are at rest while callers interleave.
Sequential == <<metadata, moviepy, stack, ret, call, project, attempts, prev, project_dirs>>

InputCached_Never(i) == FALSE

\* workflow.py 434: content_json.exists() and not force.
InputCached(i) == documents.content.exists /\ ~tasks[i].args.force

\* ui.py 141-152: a request calls step_generate_from_input with its arguments;
\* line 427, _ensure_mcp_initialized, is awaited first.
call_step_generate_from_input(i) ==
    /\ ~MidCall(tasks[i])
    /\ \E args \in InputArgs :
         tasks' = [tasks EXCEPT ![i] = [NoTask EXCEPT !.fn = "step_generate_from_input",
                                                     !.pc = "check", !.args = args]]
    /\ UNCHANGED <<Sequential, fs, settings, background_tasks, documents>>

\* content_agent.py 83: finally: settings.max_clip_duration = original_duration.
Restored(task) == [settings EXCEPT !.max_clip_duration = task.original_duration]

\* workflow.py 453-461: spec_json.write_text(...), then teaser_content.json
\* with voice_gender, voice_name and language added; content_agent.py 89:
\* teaser.duration_seconds = spec.target_duration_seconds.
Written(i, args) ==
    LET doc == [exists |-> TRUE, voice |-> args.voice, duration |-> args.target_duration]
    IN  [input_spec |-> doc, content |-> doc]

\* The extraction has ended for task: the setting is put back, both
\* documents are written, the call returns (content_agent.py 82-90,
\* workflow.py 452-463).
FinishInput(i, task) ==
    /\ settings' = Restored(task)
    /\ documents' = Written(i, task.args)
    /\ tasks' = [tasks EXCEPT ![i] = [task EXCEPT !.pc = "returned"]]

\* The provider after the MCP service: _extract_via_openai builds its prompt
\* from the setting as it is now (content_agent.py 166, 192) and awaits the
\* API; without a client _create_default_content reads the setting (154).
AfterMcp(i, task, openai_client) ==
    LET read == [task EXCEPT !.used = @ \cup {settings.max_clip_duration}] IN
    IF openai_client
    THEN /\ tasks' = [tasks EXCEPT ![i] = [read EXCEPT !.pc = "openai",
                                                       !.tried = Append(@, "openai")]]
         /\ documents' = documents
    ELSE /\ documents' = Written(i, task.args)
         /\ tasks' = [tasks EXCEPT ![i] = [read EXCEPT !.pc = "returned",
                                                       !.tried = Append(@, "default")]]

\* workflow.py 434-436: the cached content is returned; otherwise 438-451 and
\* content_agent.py 78-81: the setting is saved and set to the target, and
\* extract_teaser_content runs up to its first await: the MCP call with
\* max_duration read from the setting (line 102), or the next provider.
step_generate_from_input_check(i) ==
    /\ tasks[i].fn = "step_generate_from_input" /\ tasks[i].pc = "check"
    /\ IF InputCached(i)
       THEN /\ tasks' = [tasks EXCEPT ![i].pc = "returned"]
            /\ UNCHANGED <<settings, documents>>
       ELSE LET task == [tasks[i] EXCEPT !.original_duration = settings.max_clip_duration]
                target == task.args.target_duration
            IN  \E available \in BOOLEAN, openai_client \in BOOLEAN :
                  IF available
                  THEN /\ settings' = [settings EXCEPT !.max_clip_duration = target]
                       /\ tasks' = [tasks EXCEPT ![i] =
                                       [task EXCEPT !.pc = "mcp", !.used = {target},
                                                    !.tried = <<"mcp">>]]
                       /\ documents' = documents
                  ELSE IF openai_client
                  THEN /\ settings' = [settings EXCEPT !.max_clip_duration = target]
                       /\ tasks' = [tasks EXCEPT ![i] =
                                       [task EXCEPT !.pc = "openai", !.used = {target},
                                                    !.tried = <<"openai">>]]
                       /\ documents' = documents
                  ELSE /\ settings' = settings
                       /\ documents' = Written(i, task.args)
                       /\ tasks' = [tasks EXCEPT ![i] =
                                       [task EXCEPT !.pc = "returned", !.used = {target},
                                                    !.tried = <<"default">>]]
    /\ UNCHANGED <<Sequential, fs, background_tasks>>

\* content_agent.py 105-119, 51-54: the MCP call has ended: its content, or
\* its exception is logged and the next provider is tried.
step_generate_from_input_mcp(i) ==
    /\ tasks[i].fn = "step_generate_from_input" /\ tasks[i].pc = "mcp"
    /\ \E ok \in BOOLEAN, openai_client \in BOOLEAN :
         IF ok
         THEN FinishInput(i, tasks[i])
         ELSE /\ settings' = IF openai_client THEN settings ELSE Restored(tasks[i])
              /\ AfterMcp(i, tasks[i], openai_client)
    /\ UNCHANGED <<Sequential, fs, background_tasks>>

\* content_agent.py 57-65: the API call has ended: its content, or the default
\* content with duration_seconds read from the setting (line 154).
step_generate_from_input_openai(i) ==
    /\ tasks[i].fn = "step_generate_from_input" /\ tasks[i].pc = "openai"
    /\ \E ok \in BOOLEAN :
         IF ok
         THEN FinishInput(i, tasks[i])
         ELSE FinishInput(i, [tasks[i] EXCEPT !.used = @ \cup {settings.max_clip_duration},
                                              !.tried = Append(@, "default")])
    /\ UNCHANGED <<Sequential, fs, background_tasks>>

NextInput ==
    \E i \in Callers :
        \/ call_step_generate_from_input(i)
        \/ step_generate_from_input_check(i)
        \/ step_generate_from_input_mcp(i)
        \/ step_generate_from_input_openai(i)

SpecInput == Init /\ [][NextInput]_vars

\* ------------- generate_teaser_sequential_resumable (workflow.py 192-298), run by
\* ------------- several callers on one project directory.  A step is one
\* operation on the file system or one call of an agent; the agents answer
\* (their own failures are in Spec) and write under output_dir: audio and
\* video under a uuid name of the call, the composed teaser under
\* teaser_final_<stable id>, one name for all runs of the project.
\* lines 205-220: a run starts, force flags false.
call_run(i) ==
    /\ ~MidCall(tasks[i])
    /\ tasks' = [tasks EXCEPT ![i] = [NoTask EXCEPT !.fn = "resumable", !.pc = "content"]]
    /\ UNCHANGED <<Sequential, fs, settings, background_tasks, documents>>

\* lines 222-231: exists(), then read_text() and json.loads, or the provider
\* chain and write_text(), which opens (and empties) the file and then writes.
run_content(i) ==
    /\ tasks[i].fn = "resumable"
    /\ \/ /\ tasks[i].pc = "content"
          /\ tasks' = [tasks EXCEPT ![i].status = "extracting_content",
                                    ![i].pc = IF ContentCached(fs) THEN "content_read"
                                              ELSE "content_open"]
          /\ fs' = fs
       \/ /\ tasks[i].pc = "content_read"
          /\ tasks' = IF Loadable(fs[CONTENT])
                      THEN [tasks EXCEPT ![i].pc = "audio"]
                      ELSE [tasks EXCEPT ![i].pc = "except", ![i].error = "JSONDecodeError"]
          /\ fs' = fs
       \/ /\ tasks[i].pc = "content_open"
          /\ tasks' = [tasks EXCEPT ![i].pc = "content_write"]
          /\ fs' = [fs EXCEPT ![CONTENT] = Opened]
       \/ /\ tasks[i].pc = "content_write"
          /\ tasks' = [tasks EXCEPT ![i].pc = "audio"]
          /\ fs' = [fs EXCEPT ![CONTENT] = File(JsonBytes, "remote")]
    /\ UNCHANGED <<Sequential, settings, background_tasks, documents>>

\* lines 233-243: the size check, then generate_audio and os.replace of the
\* file of this call onto audio.<ext>.
run_audio(i) ==
    /\ tasks[i].fn = "resumable"
    /\ \/ /\ tasks[i].pc = "audio"
          /\ tasks' = [tasks EXCEPT ![i].status = "generating_audio",
                                    ![i].pc = IF AudioCached(fs) THEN "video" ELSE "audio_move"]
          /\ fs' = fs
       \/ /\ tasks[i].pc = "audio_move"
          /\ tasks' = [tasks EXCEPT ![i].pc = "video"]
          /\ fs' = [fs EXCEPT ![AUDIO] = File(AudioBytes, "remote")]
    /\ UNCHANGED <<Sequential, settings, background_tasks, documents>>

\* lines 245-255: the size check, then generate_video and os.replace of the
\* file of this call onto video.<ext>.
run_video(i) ==
    /\ tasks[i].fn = "resumable"
    /\ \/ /\ tasks[i].pc = "video"
          /\ tasks' = [tasks EXCEPT ![i].status = "generating_video",
                                    ![i].pc = IF VideoCached(fs) THEN "compose" ELSE "video_move"]
          /\ fs' = fs
       \/ /\ tasks[i].pc = "video_move"
          /\ tasks' = [tasks EXCEPT ![i].pc = "compose"]
          /\ fs' = [fs EXCEPT ![VIDEO] = File(ClipBytes, "remote")]
    /\ UNCHANGED <<Sequential, settings, background_tasks, documents>>

\* lines 257-271, compositor_agent.py 41-50: the size check; compose_teaser
\* writes output_dir/teaser_final_<stable id> (the stub without moviepy);
\* os.replace(composed_path, final_target), FileNotFoundError when the
\* composed file is not there.
run_compose(i) ==
    /\ tasks[i].fn = "resumable"
    /\ \/ /\ tasks[i].pc = "compose"
          /\ tasks' = [tasks EXCEPT ![i].status = "compositing",
                                    ![i].pc = IF FinalCached(fs) THEN "metadata" ELSE "compose_teaser"]
          /\ fs' = fs
       \/ /\ tasks[i].pc = "compose_teaser"
          /\ tasks' = [tasks EXCEPT ![i].pc = "compose_move"]
          /\ fs' = [fs EXCEPT ![GEN_FINAL] = IF moviepy THEN File(ClipBytes, "moviepy")
                                             ELSE File(StubBytes, "stub")]
       \/ /\ tasks[i].pc = "compose_move"
          /\ IF Exists(fs[GEN_FINAL])
             THEN /\ fs' = Replace(fs, GEN_FINAL, FINAL)
                  /\ tasks' = [tasks EXCEPT ![i].pc = "metadata"]
             ELSE /\ fs' = fs
                  /\ tasks' = [tasks EXCEPT ![i].pc = "except",
                                            ![i].error = "FileNotFoundError"]
    /\ UNCHANGED <<Sequential, settings, background_tasks, documents>>

\* lines 273-293: metadata.json, the assets, status completed, return project.
run_metadata(i) ==
    /\ tasks[i].fn = "resumable" /\ tasks[i].pc = "metadata"
    /\ metadata' = [of |-> "run", language |-> "en-US", forced |-> NoForce]
    /\ tasks' = [tasks EXCEPT ![i].status = "completed", ![i].pc = "returned"]
    /\ UNCHANGED <<moviepy, stack, ret, call, project, attempts, prev, project_dirs,
                   fs, settings, background_tasks, documents>>

\* lines 294-297: project.update_status("failed", str(e)); return project.
run_except(i) ==
    /\ tasks[i].fn = "resumable" /\ tasks[i].pc = "except"
    /\ tasks' = [tasks EXCEPT ![i].status = "failed", ![i].pc = "returned"]
    /\ UNCHANGED <<Sequential, fs, settings, background_tasks, documents>>

NextRuns ==
    \E i \in Callers :
        \/ call_run(i)
        \/ run_content(i)
        \/ run_audio(i)
        \/ run_video(i)
        \/ run_compose(i)
        \/ run_metadata(i)
        \/ run_except(i)

SpecRuns == Init /\ [][NextRuns]_vars

\* ------------------------------ api_generate (teaser_web/routers/ui.py 109-180),
\* requests on one event loop; the files the steps write are those of Spec.
GenerationRequests ==
    {[NoArgs EXCEPT !.pid = pid, !.mode = mode] : pid \in ProjectIds, mode \in {"audio", "full"}}

\* lines 109-140: a request arrives and awaits step_generate_from_input.
call_api_generate(i) ==
    /\ ~MidCall(tasks[i])
    /\ \E data \in GenerationRequests :
         tasks' = [tasks EXCEPT ![i] = [NoTask EXCEPT !.fn = "api_generate",
                                                     !.pc = "generate", !.args = data]]
    /\ UNCHANGED <<Sequential, fs, settings, background_tasks, documents>>

Schedulable_Always(pid) == TRUE

\* line 167: pid not in background_tasks or background_tasks[pid].done().
Schedulable(pid) == background_tasks[pid].stored \in {"none", "done"}

\* lines 141-180: step_generate_from_input has ended, step_tts is awaited; when
\* that has ended, mode audio returns "audio_ready"; mode full stores a new
\* task for the project id unless one is stored that is not done, and returns
\* "processing".  An exception of either step leaves the handler.
api_generate(i) ==
    /\ tasks[i].fn = "api_generate"
    /\ \E ok \in BOOLEAN :
         \/ /\ tasks[i].pc = "generate"
            /\ tasks' = [tasks EXCEPT ![i].pc = IF ok THEN "tts" ELSE "raised"]
            /\ background_tasks' = background_tasks
         \/ /\ tasks[i].pc = "tts"
            /\ LET pid == tasks[i].args.pid
                   create == ok /\ tasks[i].args.mode = "full" /\ Schedulable(pid)
               IN  /\ tasks' = [tasks EXCEPT
                                  ![i].pc = IF ok THEN "returned" ELSE "raised",
                                  ![i].status = IF ~ok THEN @
                                                ELSE IF tasks[i].args.mode = "audio"
                                                THEN "audio_ready" ELSE "processing",
                                  ![i].tried = IF create THEN <<"create_task">> ELSE @]
                   /\ background_tasks' =
                        IF create
                        THEN [background_tasks EXCEPT ![pid] =
                                 [stored |-> "pending", alive |-> @.alive + 1]]
                        ELSE background_tasks
    /\ UNCHANGED <<Sequential, fs, settings, documents>>

\* lines 157-164: the task awaits step_video and step_compose, logs an
\* exception of either, and is done.
run_video_and_compose(pid) ==
    /\ background_tasks[pid].alive > 0
    /\ background_tasks' = [background_tasks EXCEPT ![pid] =
                               [stored |-> IF @.alive = 1 THEN "done" ELSE @.stored,
                                alive |-> @.alive - 1]]
    /\ UNCHANGED <<Sequential, fs, settings, tasks, documents>>

NextUi ==
    \/ \E i \in Callers : call_api_generate(i)
    \/ \E i \in Callers : api_generate(i)
    \/ \E pid \in ProjectIds : run_video_and_compose(pid)

SpecUi == Init /\ [][NextUi]_vars

\* ============================================================== properties
\* The presence predicate of a stage's artifact: the file exists and, for
\* audio, holds at least one byte; for video and final, more than 1024 bytes.
Canonical == [content |-> CONTENT, audio |-> AUDIO, video |-> VIDEO, compose |-> FINAL]

Present(files, stage) ==
    LET f == files[Canonical[stage]]
    IN  CASE stage = "content" -> f.size >= 0
          [] stage = "audio" -> f.size >= 1
          [] OTHER -> f.size >= 1025

\* A resumable run that follows a resumable run which returned completed, all
\* four force flags false.
RerunNoForce ==
    /\ call.op = "resumable"
    /\ prev.op = "resumable"
    /\ call.force = NoForce

\* The generate_video of the step-by-step agent ends as generate_video, the
\* single step the pipeline takes, can end.
GenerateVideoRefined ==
    (call.op = "generate_video" /\ call.state # "running") =>
        \E r \in GenerateVideoResults :
            /\ r.file = fs[GEN_VIDEO]
            /\ r.ret = call.result
            /\ r.remote = (attempts["remote_ok"] > 0)

\* C1: a second resumable run with no force flag, after a run that completed,
\* invokes no generator of any stage, rewrites none of the four artifacts and
\* returns the canonical audio, video and final paths with status completed.
C1_RerunIsNoOp ==
    RerunNoForce =>
        /\ \A s \in Stages : attempts[s] = 0 /\ ~fs[Canonical[s]].fresh
        /\ call.state = "returned" =>
              /\ project.status = "completed"
              /\ project.audio_path = AUDIO
              /\ project.video_path = VIDEO
              /\ project.final_path = FINAL

\* C2: a step_extract without force that follows a step_extract which returned
\* does not invoke the content chain and does not rewrite teaser_content.json;
\* the two calls together invoke the chain at most once.
C2_ExtractOnce ==
    (call.op = "step_extract" /\ prev.op = "step_extract" /\ ~call.force["content"]) =>
        /\ attempts["content"] = 0
        /\ prev.content + attempts["content"] <= 1
        /\ Exists(fs[CONTENT])
        /\ ~fs[CONTENT].fresh

C2_Witness ==
    /\ call.op = "step_extract"
    /\ call.state = "returned"
    /\ prev.op = "step_extract"
    /\ prev.content = 1
    /\ ~call.force["content"]

\* The stage the resumable run is checking the cache of, and where it goes on.
CheckPc == [content |-> "content", audio |-> "audio", video |-> "video", compose |-> "compose"]

NextPc == [content |-> "audio", audio |-> "video", video |-> "compose", compose |-> "metadata"]

C4_DependenciesPresent ==
    /\ (call.op \in {"resumable", "step_tts", "step_video", "step_compose"}
          /\ (Running("generate_audio", "run") \/ Running("generate_video", "run")))
          => Present(fs, "content")
    /\ (call.op \in {"resumable", "step_compose"} /\ Running("compose_teaser", "run"))
          => (Present(fs, "audio") /\ Present(fs, "video"))

\* C5: when the content chain or the video chain comes to its last provider,
\* the call returns, and returns a placeholder artifact that satisfies the
\* stage's presence predicate (content: it exists; video: more than 1024 bytes).
C5_PlaceholderAlwaysValid ==
    [][/\ Running("extract_teaser_content", "default") =>
             (ret'.kind = "ok" /\ Exists(ret'.content) /\ ret'.content.by = "placeholder")
       /\ Running("generate_video", "placeholder") =>
             /\ ret'.kind = "ok"
             /\ fs'[ret'.path].by = "placeholder"
             /\ fs'[ret'.path].size > MinVideoBytes]_vars

\* C6: a resumable run in which no remote provider delivered anything returns
\* with status completed and the final artifact present at the canonical path.
C6_CompletedWithoutRemote ==
    (call.op = "resumable" /\ call.state # "running" /\ attempts["remote_ok"] = 0) =>
        /\ call.state = "returned"
        /\ project.status = "completed"
        /\ Present(fs, "compose")

\* C7: a call of generate_teaser, generate_teaser_from_enhanced_content or
\* generate_teaser_sequential_resumable never ends with an exception; when a
\* stage raised, the project it returns has status failed and the message.
C7_NoExceptionEscapes ==
    (call.op \in OneShot \cup {"resumable"} /\ call.state # "running") =>
        /\ call.state = "returned"
        /\ project.status \in {"completed", "failed"}
        /\ project.status = "failed" => project.error # ""

\* The stages whose artifact a completed run took from a placeholder provider.
PlaceholderStages ==
    {s \in Stages : fs[Canonical[s]].fresh
                      /\ fs[Canonical[s]].by \in {"placeholder", "success_placeholder"}}

CompletedRun ==
    /\ call.op = "resumable"
    /\ call.state = "returned"
    /\ project.status = "completed"

\* C8, as stated: after a completed resumable run, metadata.json names, for each
\* stage whose output came from the placeholder provider, that provider.
C8_MetadataNamesPlaceholders ==
    CompletedRun =>
        \A s \in PlaceholderStages :
            /\ "providers" \in DOMAIN metadata
            /\ metadata["providers"][s] = "placeholder"

\* C8, amended: after a completed resumable run, metadata.json holds the run's
\* language and its four force flags, and nothing about providers.
C8_MetadataIsRunParameters ==
    CompletedRun =>
        /\ DOMAIN metadata = {"of", "language", "forced"}
        /\ metadata.of = "run"
        /\ metadata.language = call.language
        /\ metadata.forced = call.force

C8_Witness ==
    /\ CompletedRun
    /\ "video" \in PlaceholderStages
    /\ call.force["video"]
    /\ ~call.force["audio"]
    /\ call.language = "he-IL"

\* A response that declares more bytes than its body delivers.
ShortBody(resp) == resp.clen > 0 /\ resp.delivered < resp.clen

C10_SuccessPlaceholderWritten ==
    [][(Running("generate_via_sora", "download") /\ ~DownloadLoop(Top)) =>
          /\ ret'.kind = "ok"
          /\ ret'.path = GEN_VIDEO
          /\ fs'[GEN_VIDEO].by = "success_placeholder"
          /\ fs'[GEN_VIDEO].size > 0]_vars

\* The deterministic part of the sleep after failed attempt k, in seconds.
DeterministicDelay(k) ==
    sora_download_retry_initial_delay * Power(sora_download_retry_backoff, k - 1)

C12_DurationMatchesAudio ==
    (Running("compose_with_moviepy", "write") /\ Top.ta > 0 /\ Top.tv > 0) =>
        (Top.t >= Top.ta - tolerance /\ Top.t <= Top.ta + tolerance)

\* ceil(a / b) for positive integers.
Ceil(a, b) == (a + b - 1) \div b

\* The compositor is in, or has left, the ping-pong loop.
Looping ==
    /\ stack # <<>>
    /\ Top.fn = "compose_with_moviepy"
    /\ Top.pc \in {"loop", "write"}
    /\ Top.tv > 0
    /\ Top.ta > Top.tv + tolerance

\* C13: when the audio is more than the tolerance longer than the video, the
\* sequence holds whole copies only, forward at the odd places and reversed at
\* the even ones, and at most ceil(Ta / Tv) + 1 of them.
C13_PingPongLoop ==
    Looping =>
        /\ \A i \in 1..Len(Top.tried) :
              Top.tried[i] = IF i % 2 = 1 THEN "video" ELSE "rev"
        /\ Len(Top.tried) <= Ceil(Top.ta, Top.tv) + 1
        /\ Top.pc = "loop" => Top.t = Len(Top.tried) * Top.tv

C13_Witness ==
    /\ Looping
    /\ Top.pc = "write"
    /\ Top.ta = 2200 /\ Top.tv = 700
    /\ Top.tried = <<"video", "rev", "video", "rev">>
    /\ Top.t = 2200

\* C14: requests with different (title, text) pairs have different ids, and so
\* different project directories; requests with the same pair have the same id.
C14_FingerprintSeparates ==
    \A r1, r2 \in project_dirs :
        (r1.title = r2.title /\ r1.content = r2.content) <=> (r1.id = r2.id)

\* C15: whenever an artifact satisfies its presence predicate, as a reader
\* that looks at that moment finds, the file is a completely written one: it
\* is not a file that has been opened for writing and not yet written.
C15_NoHalfWrittenVisible ==
    \A s \in Stages : Present(fs, s) => fs[Canonical[s]].by # "open"

\* The order of the statuses of a run.  generating_media is the name the two
\* one-shot entry points give to the audio and video stage.
Rank(status) ==
    CASE status = "none" -> 0
      [] status = "extracting_content" -> 1
      [] status \in {"generating_audio", "generating_media"} -> 2
      [] status = "generating_video" -> 3
      [] status = "compositing" -> 4
      [] status = "completed" -> 5
      [] status = "failed" -> 6

Terminal == {"completed", "failed"}

Pipelines == {"resumable"} \cup OneShot

ContentPcs == {"content", "content_write", "content_write_body"}

Generators == {"audio", "video", "compose"}

\* The resumable run is in its content stage with an exception raised.
ContentStageRaised ==
    /\ stack # <<>>
    /\ Top.fn = "resumable"
    /\ Top.pc \in ContentPcs
    /\ ret.kind = "exc"

\* C17: a resumable run whose cached teaser_content.json is an empty file, and
\* is not forced, raises in its content stage; and a resumable run with an
\* exception raised in its content stage has invoked no audio, video or
\* compose generator and written no final.mp4, and its next step ends it with
\* status failed and the message of the exception, touching no file.
C17_ContentFailureHalts ==
    [][ /\ ( /\ Running("resumable", "content")
             /\ ret.kind # "exc"
             /\ Exists(fs[CONTENT]) /\ fs[CONTENT].size = 0
             /\ ~call.force["content"] )
          => ContentStageRaised'
        /\ ContentStageRaised =>
             /\ \A g \in Generators : attempts[g] = 0
             /\ ~fs[FINAL].fresh
             /\ project'.status = "failed"
             /\ project'.error = ret.msg
             /\ stack' = <<>>
             /\ ret' = RetPath("project")
             /\ fs' = fs
             /\ attempts' = attempts
      ]_vars

\* A resumable run found an empty teaser_content.json and returned failed with
\* final.mp4 of an earlier run still in place.
C17_Witness ==
    /\ call.op = "resumable"
    /\ call.state = "returned"
    /\ project.status = "failed"
    /\ project.error = "JSONDecodeError"
    /\ Exists(fs[FINAL])

\* C18: in a resumable run, whatever the video providers did, generate_video
\* has returned a path to a file that exists, which the run can move to
\* video.mp4 before it goes on to composition: the video stage raises nothing.
C18_VideoStageNeverFails ==
    Running("resumable", "video_move") => (ret.kind = "ok" /\ Exists(fs[ret.path]))

\* A generate_audio (generate_video) call of the run has started and not ended.
AudioInProgress ==
    \E i \in DOMAIN stack : stack[i].fn = "generate_audio" \/ stack[i].audio_task = "running"

VideoInProgress ==
    \E i \in DOMAIN stack : stack[i].fn = "generate_video" \/ stack[i].video_task = "running"

\* The step of a run that invokes the video generator.
StartVideo ==
    /\ resumable_video \/ gather_video_start
    /\ attempts'["video"] = attempts["video"] + 1

\* The run is going to synthesize the video: it has no usable cached one.
VideoWanted == call.op = "resumable" => (~VideoCached(fs) \/ call.force["video"])

\* C19: in every run entry point, the resumable one included, video synthesis
\* can start before audio synthesis has finished: while the audio generator of
\* a run is in progress and its video generator has not been invoked, the
\* step that invokes the video generator is possible.
C19_VideoCanStartDuringAudio ==
    ( /\ call.state = "running"
      /\ call.op \in Pipelines
      /\ AudioInProgress
      /\ attempts["video"] = 0
      /\ VideoWanted )
    => ENABLED StartVideo

\* The resumable run awaits generate_audio before it invokes generate_video:
\* its two generators are never in progress together.
ResumableSequential ==
    call.op = "resumable" => ~(AudioInProgress /\ VideoInProgress)

\* The tasks of asyncio.gather in the one-shot entry points are in progress
\* together.
GatherBothInProgress ==
    call.op \in OneShot /\ AudioInProgress /\ VideoInProgress

\* C20: every place that decides whether an artifact is present gives the
\* same answer for it, whatever the size of the file: for the video the cache
\* check of step_video and of the resumable run, the prerequisite check of
\* step_compose and the status endpoint; for the final and the audio the
\* cache check and the status endpoint (and for the audio step_compose too).
C20_PresenceAgrees ==
    /\ VideoCached(fs) = ~ComposeVideoMissing(fs)
    /\ VideoCached(fs) = api_status(fs).video
    /\ FinalCached(fs) = api_status(fs).final
    /\ AudioCached(fs) = ~ComposeAudioMissing(fs)
    /\ AudioCached(fs) = api_status(fs).audio

\* The stage of each single-step entry point.
StepStage == [step_tts |-> "audio", step_video |-> "video", step_compose |-> "compose"]

\* C21: a step_tts, step_video or step_compose without force that follows a
\* call of the same step which returned invokes no audio, video or compose
\* generator, and when it returns it returns the canonical path of its stage.
C21_StepIdempotent ==
    ( /\ call.op \in DOMAIN StepStage
      /\ prev.op = call.op
      /\ ~call.force[StepStage[call.op]] )
    => /\ \A g \in {"audio", "video", "compose"} : attempts[g] = 0
       /\ call.state # "raised"
       /\ call.state = "returned" => call.result = RetPath(Canonical[StepStage[call.op]])

\* The fixed order of the providers of the two chains.
ProviderRank ==
    [mcp |-> 1, sora |-> 2, openai |-> 2, placeholder |-> 3, default |-> 3]

Chains == {"generate_video", "extract_teaser_content"}

\* C22: in generate_video and extract_teaser_content the providers attempted so
\* far were attempted in the order MCP service, cloud API, placeholder, each
\* at most once, and the provider about to be attempted comes after all of
\* them in that order.
C22_ProvidersInOrderOnce ==
    \A i \in DOMAIN stack :
        stack[i].fn \in Chains =>
            LET tried == stack[i].tried IN
            /\ \A j, k \in DOMAIN tried :
                 j < k => ProviderRank[tried[j]] < ProviderRank[tried[k]]
            /\ stack[i].pc \in DOMAIN ProviderRank =>
                 \A j \in DOMAIN tried : ProviderRank[tried[j]] < ProviderRank[stack[i].pc]

Polling == Running("generate_via_sora", "poll")

\* The step is a status query of the poll loop: the loop condition held.
PollQueried == Polling /\ Top.t < max_wait * TicksPerSecond /\ stack' # stack

\* C23: a status query that reports failed ends the polling at once: the
\* exception with the remote error message is raised and no download was
\* attempted; and the step after an exception in _generate_via_sora leaves
\* _generate_via_sora, so that no status query or download follows.
C23_FailedStopsPolling ==
    [][ /\ (PollQueried /\ Top'.status = "failed") =>
              /\ Top'.pc = "except"
              /\ ret' = Raise("Sora job failed: " \o Top'.error)
              /\ Top'.n = 0
              /\ Top'.t = Top.t
        /\ Running("generate_via_sora", "except") =>
              \A i \in DOMAIN stack' : stack'[i].fn # "generate_via_sora"
      ]_vars

\* Polling ended on a failed job, after at least one earlier query, with the
\* message of the service.
C23_Witness ==
    /\ Running("generate_via_sora", "except")
    /\ Top.status = "failed"
    /\ Top.t > 0
    /\ ret = Raise("Sora job failed: content policy")

TerminalStatuses == {"completed", "completed_empty", "failed"}

C25_NoQueryAfterCeiling ==
    [][ PollQueried =>
          Top.t + poll_interval * TicksPerSecond <= max_wait * TicksPerSecond
      ]_vars

\* C26: a generate_video call whose poll loop ended with the timeout error has
\* gone on from it as from any provider failure, and when the call is over it
\* has returned the path of a placeholder video.
C26_TimeoutEndsInPlaceholder ==
    (call.op = "generate_video" /\ attempts["poll_timeout"] > 0) =>
        /\ \A i \in DOMAIN stack : stack[i].pc \notin {"poll", "download", "response", "backoff"}
        /\ call.state # "running" =>
              /\ call.state = "returned"
              /\ call.result = RetPath(GEN_VIDEO)
              /\ fs[GEN_VIDEO].by = "placeholder"

\* The response is one the claim lets through: status 200, and a video
\* content-type or a declared length above 1000, the length being a number.
Acceptable(resp) ==
    /\ resp.status_ok
    /\ resp.ctype_video \/ resp.clen > 1000
    /\ resp.clen # NotANumber

\* C27: reading a download response writes to the .part file or to
\* output_path, or returns, only if the response has status 200 and a video
\* content-type or a declared content-length above 1000; every other
\* response, and one whose content-length is not a number, ends as a failed
\* attempt that was counted, with no file touched, and the loop goes to its sleep.
C27_OnlyReadyResponsesStreamed ==
    [][ Running("generate_via_sora", "response") =>
          /\ ~Acceptable(Top.resp) =>
                /\ fs' = fs
                /\ Running("generate_via_sora", "backoff")'
                /\ Top'.last \in {"not_ready", "error"}
                /\ Top'.n = Top.n /\ Top.n >= 1
                /\ ret'.kind # "ok"
          /\ Acceptable(Top.resp) =>
                \/ Top'.fn = "generate_video" /\ ret'.kind = "ok"
                \/ Top'.last \in {"stream_error", "partial"}
      ]_vars

\* A second attempt failed on a content-length that is not a number, and
\* nothing is at output_path.
C27_Witness ==
    /\ Running("generate_via_sora", "backoff")
    /\ Top.last = "error"
    /\ Top.n = 2
    /\ ~Exists(fs[GEN_VIDEO])

\* _generate_via_sora is in its download loop.
InDownloadLoop ==
    \E i \in DOMAIN stack :
        /\ stack[i].fn = "generate_via_sora"
        /\ stack[i].pc \in {"download", "response", "backoff"}

\* C28: the download loop terminates: it never counts more than
\* sora_download_retry_max_attempts attempts, it starts an attempt only while
\* less than sora_download_retry_max_seconds have elapsed since the loop began,
\* its clock and its count start at zero whatever time the polling took, and
\* a call that is in the loop eventually is out of it.
C28_DownloadLoopBounded ==
    /\ [][ /\ (Running("generate_via_sora", "download") /\ Top'.pc \in {"response", "backoff"}) =>
                 /\ Top.n < sora_download_retry_max_attempts
                 /\ Top.t < sora_download_retry_max_seconds * TicksPerSecond
                 /\ Top'.n = Top.n + 1
           /\ (Polling /\ InDownloadLoop') => (Top'.t = 0 /\ Top'.n = 0)
           /\ InDownloadLoop' => Top'.n <= sora_download_retry_max_attempts
         ]_vars
    /\ InDownloadLoop ~> ~InDownloadLoop

\* The loop ended on the elapsed time, with fewer attempts than permitted.
C28_Witness ==
    /\ Running("generate_via_sora", "download")
    /\ ~DownloadLoop(Top)
    /\ Top.n >= 1
    /\ Top.n < sora_download_retry_max_attempts

\* C29: a backoff sleep happens only between two download attempts: the loop
\* sleeps only when the failed attempt was not the last permitted one, and
\* after the sleep the loop condition holds, so that another attempt follows.
C29_SleepOnlyBetweenAttempts ==
    [][ Running("generate_via_sora", "backoff") =>
          /\ Top.n < sora_download_retry_max_attempts
          /\ Running("generate_via_sora", "download")'
          /\ DownloadLoop(Top')
      ]_vars

\* C30: a download attempt that failed leaves no temporary file: while the
\* loop sleeps after a failed attempt, and when the loop has ended without a
\* download, there is no file at output_path + ".part".
C30_PartFileDiscarded ==
    ( \/ Running("generate_via_sora", "backoff")
      \/ Running("generate_via_sora", "download") /\ ~DownloadLoop(Top) )
    => ~Exists(fs[GEN_VIDEO_PART])

\* The compositor is in the ping-pong loop, whatever the durations.
InPingPong == stack # <<>> /\ Top.fn = "compose_with_moviepy" /\ Top.pc = "loop"

\* C31: for every video duration, zero included, the ping-pong loop stops
\* after at most max_cycles cycles: each step of the loop is one more cycle,
\* after the last cycle allowed the only step is the concatenation, and the
\* sequence never holds more than two copies per cycle.
C31_LoopBounded ==
    [][InPingPong =>
          /\ Top.n <= max_cycles
          /\ Len(Top.tried) <= 2 * Top.n
          /\ Len(Top.tried) <= 2 * max_cycles
          /\ Top.n = max_cycles => Top'.pc = "write"
          /\ Top'.pc = "loop" => Top'.n = Top.n + 1]_vars

\* A video of duration zero was looped for all the cycles: 40 copies.
C31_Witness ==
    /\ Running("compose_with_moviepy", "write")
    /\ Top.tv = 0 /\ Top.ta > tolerance
    /\ Top.n = max_cycles
    /\ Len(Top.tried) = 2 * max_cycles

\* A clip of duration zero was loaded and the compositor is about to write.
ZeroDurationLoaded ==
    /\ Running("compose_with_moviepy", "write")
    /\ (Top.ta = 0 \/ Top.tv = 0)

\* C32: composing a video or an audio of duration zero raises and writes no
\* output file.
C32_ZeroDurationRaises ==
    [][ZeroDurationLoaded =>
          /\ ret'.kind = "exc"
          /\ fs'[Top.final_path] = fs[Top.final_path]]_vars

\* A resumable run or a step_compose call is under way.
ComposingCall ==
    /\ call.state = "running"
    /\ call.op \in {"resumable", "step_compose"}
    /\ stack # <<>>

\* The frame that awaits compose_teaser and then moves its result.
AtComposeMove ==
    \/ Running("resumable", "compose_move")
    \/ Running("step_compose", "move")

\* compose_teaser, or the os.replace after it, has raised.
CompositionRaised == ComposingCall /\ AtComposeMove /\ ret.kind = "exc"

\* C33: in a resumable run or step_compose the canonical final file changes
\* only in the os.replace that follows a compose_teaser that returned, so a
\* composition that raises leaves it as it was before the call; and neither
\* compose_teaser nor the handling of its exception touches the canonical
\* content, audio and video files.
C33_FailedComposeKeepsArtifacts ==
    [][ComposingCall =>
          /\ fs'[FINAL] # fs[FINAL] => (AtComposeMove /\ ret.kind = "ok")
          /\ (Top.fn = "compose_teaser" \/ CompositionRaised) =>
                \A p \in {CONTENT, AUDIO, VIDEO, FINAL} : fs'[p] = fs[p]]_vars

\* A resumable run whose composition raised has returned as failed; a final
\* file of an earlier call is still there with the other three artifacts.
C33_Witness ==
    /\ call.op = "resumable" /\ call.state = "returned"
    /\ project.status = "failed" /\ project.error = "compose error"
    /\ Exists(fs[FINAL]) /\ ~fs[FINAL].fresh
    /\ Exists(fs[CONTENT]) /\ Exists(fs[AUDIO]) /\ Exists(fs[VIDEO])

\* teaser_content.json is there and empty: a write that was opened and never
\* carried out.
ZeroByteContent == Exists(fs[CONTENT]) /\ fs[CONTENT].size = 0

\* C34: a stage that finds a zero-byte file at its canonical path regenerates
\* the artifact: on an empty teaser_content.json the content check of a
\* resumable run and of step_extract calls the provider chain, and on an empty
\* audio file the audio check of a resumable run calls the audio agent.
C34_ZeroByteNotCacheHit ==
    [][/\ (ZeroByteContent /\ (Running("resumable", "content") \/ Running("step_extract", "check")))
            => (Len(stack') = Len(stack) + 1 /\ Top'.fn = "extract_teaser_content")
       /\ (Running("resumable", "audio") /\ ret.kind # "exc" /\ Exists(fs[AUDIO]) /\ fs[AUDIO].size = 0)
            => (Len(stack') = Len(stack) + 1 /\ Top'.fn = "generate_audio")]_vars

\* A resumable run has returned with status completed.
RunCompleted ==
    /\ call.op = "resumable" /\ call.state = "returned"
    /\ project.status = "completed"

\* C35: after a completed resumable run no artifact is older than the one it
\* was built from: when the content was written by this run so were the audio
\* and the video, and when the audio or the video was written by this run so
\* was the final file.
C35_DownstreamNotStale ==
    RunCompleted =>
        /\ fs[CONTENT].fresh => (fs[AUDIO].fresh /\ fs[VIDEO].fresh)
        /\ (fs[AUDIO].fresh \/ fs[VIDEO].fresh) => fs[FINAL].fresh

\* C36: when teaser_content.json exists and force is false,
\* step_generate_from_input returns without writing input_spec.json or
\* teaser_content.json, without touching the settings and without invoking a
\* provider, whatever voice, language and target duration the call passes.
C36_CachedInputUntouched ==
    [][\A i \in Callers :
          (/\ tasks[i].fn = "step_generate_from_input" /\ tasks[i].pc = "check"
           /\ documents.content.exists /\ ~tasks[i].args.force
           /\ tasks'[i] # tasks[i])
          => /\ documents' = documents
             /\ settings' = settings
             /\ tasks'[i].pc = "returned"
             /\ tasks'[i].tried = <<>> /\ tasks'[i].used = {}]_vars

\* A call that asked for another voice and duration than the stored ones has
\* returned the cached content.
C36_Witness ==
    \E i \in Callers :
        /\ tasks[i].fn = "step_generate_from_input" /\ tasks[i].pc = "returned"
        /\ tasks[i].tried = <<>>
        /\ ~tasks[i].args.force
        /\ documents.content.exists /\ documents.input_spec.exists
        /\ documents.content.voice # tasks[i].args.voice
        /\ documents.content.duration # tasks[i].args.target_duration

\* C37: once no generate_teaser_from_input call is under way,
\* settings.max_clip_duration is the configured value again; and every value
\* of it that a call's extraction read is that call's own target duration.
C37_DurationRestored ==
    /\ (\A i \in Callers : ~MidCall(tasks[i]))
          => settings.max_clip_duration \in ConfiguredDurations
    /\ \A i \in Callers : tasks[i].used \subseteq {tasks[i].args.target_duration}

\* A run of the concurrent callers has ended.
RunEnded(i) == tasks[i].fn = "resumable" /\ tasks[i].pc = "returned"

\* C38: runs for one title and text that execute side by side only duplicate
\* work: each of them ends with status completed, and once they have all ended
\* every canonical artifact is a completely written file.
C38_ConcurrentRunsOnlyDuplicate ==
    /\ \A i \in Callers : RunEnded(i) => tasks[i].status = "completed"
    /\ (\A i \in Callers : RunEnded(i))
          => (Loadable(fs[CONTENT]) /\ AudioCached(fs) /\ VideoCached(fs) /\ FinalCached(fs))

\* C39: for each project id at most one run_video_and_compose task is alive,
\* and it is the one stored in the registry: a request that finds a stored
\* task that is not done creates none.
C39_OneBackgroundTask ==
    \A pid \in ProjectIds :
        /\ background_tasks[pid].alive <= 1
        /\ background_tasks[pid].alive = 1 <=> background_tasks[pid].stored = "pending"

\* Two full-mode requests for one project id have returned "processing"; one
\* created the task, the other found it running and created none.
C39_Witness ==
    \E i, j \in Callers :
        /\ tasks[i].pc = "returned" /\ tasks[j].pc = "returned"
        /\ tasks[i].args = [NoArgs EXCEPT !.pid = "p", !.mode = "full"]
        /\ tasks[j].args = tasks[i].args
        /\ tasks[i].tried = <<"create_task">> /\ tasks[j].tried = <<>>
        /\ tasks[j].status = "processing"
        /\ background_tasks["p"].alive = 1

====
